---- MODULE Spec2Model ----
(***************************************************************************)
(* A model of the redis-like key-value store: the two sharded store        *)
(* implementations (api/hashmap_engine.py HashMapEngine and                *)
(* api/redislite.py RedisLite), with their expiration heap, recency        *)
(* tracking and eviction.                                                  *)
(*                                                                         *)
(* Conventions.  A Python Optional is a sequence of length 0 or 1: None is *)
(* <<>> and a present value x is <<x>>.  A Python dict is a function whose *)
(* DOMAIN is the set of its keys.  The monotonic clock is counted in ticks *)
(* of 1/TicksPerSec seconds.  Keys are small integers and hash(key) is the *)
(* key itself, so the keys 1 and 17 share shard 1.                         *)
(***************************************************************************)
EXTENDS Integers, Sequences, FiniteSets, TLC

VARIABLES
    engine,        \* which store implementation is running
    data,          \* _data: shard -> dict key -> value
    expiry,        \* _expiry: shard -> dict key -> monotonic deadline
    access_times,  \* _access_times: shard -> ordered dict key -> time, as a sequence of <<key, time>>
    expiry_heap,   \* _expiry_heap: the min-heap of <<deadline, key, shard>>, kept in pop order
    memory_bytes,  \* _stats["memory_bytes"] (HashMapEngine) / _stats.total_memory_bytes (RedisLite)
    now,           \* time.monotonic(), in ticks
    hist,          \* history: per key, what the commands issued so far promise about it
    wal_wired,     \* whether the write handlers call PersistenceManager.log_command
    aof_fsync_policy,        \* "always", "everysec" or "no"
    aof_buffer,    \* aof_buffer: the commands logged and not yet written
    aof_file,      \* the cells of aof.wal
    aof_synced,    \* how many leading cells of aof.wal have been fsynced
    aof_corruption_skipped,  \* _daemon_stats["aof_corruption_skipped"]
    proc,          \* "running", "replaying" (in RecoveryManager.recover) or "down"
    replay_pos,    \* f.tell() of replay_aof
    replay_done,   \* replay_aof has left its loop
    applied,       \* history: the commands replay_aof has passed to its callback
    acked,         \* history: the mutating commands acknowledged to clients
    written,       \* history: the commands whose records were written to aof.wal
    damage,        \* history: offset of the first cell of aof.wal lost or altered
    stop_kind,     \* history: how the last process ended: "none", "clean", "crash"
    restarts,      \* history: how many times the server was started again
    command_queue,       \* ReplicationMaster.command_queue
    command_id_counter,  \* ReplicationMaster.command_id_counter
    replication_offset,  \* ReplicationMaster.replication_offset
    handler,       \* per replica, where its handle_replica_connection coroutine stands
    link,          \* per replica, the lines written to its connection and not yet read
    replica_offset,      \* per replica, ReplicationReplica.replication_offset
    replica_applied,     \* history: per replica, the commands _apply_command has applied
    master_applied,      \* history: the mutating commands the master has applied
    joined,        \* history: per replica, how many commands the master had applied when it connected
    psync_replication_id,      \* ReplicationMasterPSYNC.replication_id
    psync_replication_offset,  \* ReplicationMasterPSYNC.replication_offset
    command_backlog,     \* ReplicationMasterPSYNC.command_backlog
    backlog_size_bytes,  \* ReplicationMasterPSYNC.backlog_size_bytes
    replica_offsets,     \* ReplicationMasterPSYNC.replica_offsets[replica_id]
    replica_replication_id,    \* ReplicationReplicaPSYNC.replication_id
    last_offset,   \* ReplicationReplicaPSYNC.last_offset
    link_up,       \* the replica's connection to the master is open
    stream,        \* what the master has written to the connection and the replica has not read
    psync_applied, \* history: offsets of the records the replica has applied, in order
    psync_history, \* history: every record the master has recorded
    last_sync,     \* history: the last PSYNC request and the master's answer
    replica_data,  \* the PSYNC replica's keys and values, as its callback keeps them
    lock_owner,    \* per lock (threading.RLock), the thread that owns it
    lock_count,    \* per lock, how many times its owner has acquired it
    thread_pc,     \* per thread, where it is in its method
    thread_held,   \* per thread, the locks it holds, innermost last
    thread_want,   \* per thread, the lock it has requested and not yet got
    heap_shards,   \* the shard ids of the entries of _expiry_heap
    kv_data,       \* redislite.RedisLite._data
    kv_expiry,     \* redislite.RedisLite._expiry: wall-clock deadlines
    wall_clock,    \* time.time(), in ticks
    mono_clock,    \* time.monotonic(), in ticks
    kv_hist,       \* history: per key what was set and its deadline on the monotonic clock
    exp_pc,        \* where the handler of EXPIRE is: "idle", "checked" (after exists), "read" (after get)
    exp_iface,     \* which handler runs: "resp" (_cmd_expire) or "http" (expire_key)
    exp_key,       \* its key
    exp_ttl,       \* its ttl
    exp_value,     \* the value its get returned
    flush_pc,      \* where a flush is: "idle", or "heap" once the shards are cleared
    replica_mode,  \* config.replica_mode of the server: "master" or "replica"
    last_reply,    \* the last command of the server: where it came from, and the reply to it
    io_failed,     \* whether the last flush_aof caught an IOError
    log_raised,    \* whether the last log_command raised to its caller
    error_count,   \* the error counters of _daemon_stats
    dump_file,     \* dump.json: None when absent, else its cells
    tmp_file,      \* dump.json.tmp: None when absent, else its cells
    snap_pc,       \* where the snapshot and the rotation after it stand
    snap_state,    \* the store_state given to create_snapshot
    snap_prev,     \* dump.json as create_snapshot found it
    accepting,     \* whether the TCP server takes new clients
    workers,       \* the background threads still running
    sd_pc,         \* how far the shutdown half of lifespan has come
    shutdown_cmd,  \* whether a client's SHUTDOWN has been answered
    unread,        \* what the client sent and the server has not read yet
    parser_buffer, \* RESPParser.buffer of the connection
    replies,       \* the replies written to the client, in order
    expected,      \* the replies to the commands the client sent, in order
    fs_pc,         \* where the coroutine _handle_fullsync stands
    fs_header_offset, \* the offset written in the +FULLSYNC header
    fs_snapshot_offset \* the master's offset when snapshot_callback ran

storeVars == <<engine, data, expiry, access_times, expiry_heap, memory_bytes, now, hist>>

walVars == <<wal_wired, aof_fsync_policy, aof_buffer, aof_file, aof_synced,
             aof_corruption_skipped, proc, replay_pos, replay_done, applied,
             acked, written, damage, stop_kind, restarts>>

replVars == <<command_queue, command_id_counter, replication_offset, handler, link,
              replica_offset, replica_applied, master_applied, joined>>

psyncVars == <<psync_replication_id, psync_replication_offset, command_backlog,
               backlog_size_bytes, replica_offsets, replica_replication_id,
               last_offset, link_up, stream, psync_applied, psync_history, last_sync,
               replica_data>>

lockVars == <<lock_owner, lock_count, thread_pc, thread_held, thread_want, heap_shards>>

kvVars == <<kv_data, kv_expiry, wall_clock, mono_clock, kv_hist>>

expVars == <<exp_pc, exp_iface, exp_key, exp_ttl, exp_value>>

flushVars == <<flush_pc>>

modeVars == <<replica_mode, last_reply>>

ioVars == <<io_failed, log_raised, error_count>>

snapVars == <<dump_file, tmp_file, snap_pc, snap_state, snap_prev>>

shutVars == <<accepting, workers, sd_pc, shutdown_cmd>>

respVars == <<unread, parser_buffer, replies, expected>>

fullsyncVars == <<fs_pc, fs_header_offset, fs_snapshot_offset>>

vars == <<storeVars, walVars, replVars, psyncVars, lockVars, kvVars, expVars, flushVars, modeVars, ioVars, snapVars, shutVars, respVars, fullsyncVars>>

\* What the actions of one part leave alone.
otherThanStore == <<walVars, replVars, psyncVars, lockVars, kvVars, expVars, flushVars, modeVars, ioVars, snapVars, shutVars, respVars, fullsyncVars>>

otherThanWal == <<replVars, psyncVars, lockVars, kvVars, expVars, flushVars, modeVars, ioVars, snapVars, shutVars, respVars, fullsyncVars>>

otherThanRepl == <<walVars, psyncVars, lockVars, kvVars, expVars, flushVars, modeVars, ioVars, snapVars, shutVars, respVars, fullsyncVars>>

otherThanPsync == <<storeVars, walVars, replVars, lockVars, kvVars, expVars, flushVars, modeVars, ioVars, snapVars, shutVars, respVars, fullsyncVars>>

otherThanLocks == <<storeVars, walVars, replVars, psyncVars, kvVars, expVars, flushVars, modeVars, ioVars, snapVars, shutVars, respVars, fullsyncVars>>

otherThanKv == <<storeVars, walVars, replVars, psyncVars, lockVars, expVars, flushVars, modeVars, ioVars, snapVars, shutVars, respVars, fullsyncVars>>

otherThanExpire == <<walVars, replVars, psyncVars, lockVars, kvVars, flushVars, modeVars, ioVars, snapVars, shutVars, respVars, fullsyncVars>>

otherThanFlush == <<walVars, replVars, psyncVars, lockVars, kvVars, expVars, modeVars, ioVars, snapVars, shutVars, respVars, fullsyncVars>>

otherThanMode == <<walVars, replVars, psyncVars, lockVars, kvVars, expVars, flushVars, ioVars, snapVars, shutVars, respVars, fullsyncVars>>

otherThanIo == <<replVars, psyncVars, lockVars, kvVars, expVars, flushVars, modeVars, snapVars, shutVars, respVars, fullsyncVars>>

otherThanSnap == <<replVars, psyncVars, lockVars, kvVars, expVars, flushVars, modeVars, ioVars, shutVars, respVars, fullsyncVars>>

otherThanShut == <<replVars, psyncVars, lockVars, kvVars, expVars, flushVars, modeVars, ioVars, snapVars, respVars, fullsyncVars>>

otherThanResp == <<storeVars, walVars, replVars, psyncVars, lockVars, kvVars, expVars, flushVars, modeVars, ioVars, snapVars, shutVars, fullsyncVars>>

otherThanFullsync == <<storeVars, walVars, lockVars, kvVars, expVars, flushVars, modeVars, ioVars, snapVars, shutVars, respVars, replVars>>

---------------------------------------------------------------------------
\* Bounds of the model.
MaxTime == 2
TicksPerSec == 2
MaxHeap == 2
MaxMemoryBytes == 2
CellBase == 5
MaxLog == 3
AofBufferLimit == 2
MaxRestarts == 1
MaxWrites == 2
MaxRecords == 3
MaxBacklogSize == 3
MaxConnections == 3
MaxPending == 2
MaxWall == 4

\* Program constants.
LOCK_STRIPE_COUNT == 16

Keys == {1, 17}
Values == {1, 2}
TTLSecs == {1, 2}
Shards == 0 .. (LOCK_STRIPE_COUNT - 1)
eviction_policy == "lru"

None == <<>>
Some(x) == <<x>>
OptTTL == {None} \cup {Some(t) : t \in TTLSecs}

---------------------------------------------------------------------------
\* Python dict and list helpers.

Put(f, k, v) == [x \in (DOMAIN f) \cup {k} |-> IF x = k THEN v ELSE f[x]]

Pop(f, k) == [x \in (DOMAIN f) \ {k} |-> f[x]]

EmptyDict == [x \in {} |-> 0]

SeqKeys(a) == {a[i][1] : i \in DOMAIN a}

SeqPop(a, k) == SelectSeq(a, LAMBDA e : e[1] # k)

\* d[k] = t on an insertion-ordered dict: a present key keeps its place.
SeqAssign(a, k, t) ==
    IF k \in SeqKeys(a)
    THEN [i \in DOMAIN a |-> IF a[i][1] = k THEN <<k, t>> ELSE a[i]]
    ELSE Append(a, <<k, t>>)

\* OrderedDict.move_to_end(k) of a present key.
move_to_end(a, k) ==
    LET e == CHOOSE x \in {a[i] : i \in DOMAIN a} : x[1] = k
    IN  Append(SeqPop(a, k), e)

\* Tuple order of the heap entries <<deadline, key, shard>>.
TupleLess(a, b) ==
    \/ a[1] < b[1]
    \/ a[1] = b[1] /\ a[2] < b[2]
    \/ a[1] = b[1] /\ a[2] = b[2] /\ a[3] < b[3]

\* heapq.heappush: the heap is held in pop order, smallest first.
heappush(h, e) ==
    LET n == Cardinality({i \in DOMAIN h : ~TupleLess(e, h[i])})
    IN  SubSeq(h, 1, n) \o <<e>> \o SubSeq(h, n + 1, Len(h))

get_shard(k) == k % LOCK_STRIPE_COUNT

\* sys.getsizeof of a value and of a key, in size units.
getsizeof(v) == v

getsizeofKey(k) == 1

RECURSIVE SumSizes(_, _)
SumSizes(f, ks) ==
    IF ks = {} THEN 0
    ELSE LET k == CHOOSE x \in ks : TRUE
         IN  getsizeof(f[k]) + SumSizes(f, ks \ {k})

RECURSIVE SumShards(_, _)
SumShards(D, ss) ==
    IF ss = {} THEN 0
    ELSE LET s == CHOOSE x \in ss : TRUE
         IN  SumSizes(D[s], DOMAIN D[s]) + SumShards(D, ss \ {s})

\* The store as one value, for the operators that transform it.
Store == [data |-> data, expiry |-> expiry, access |-> access_times, heap |-> expiry_heap]

---------------------------------------------------------------------------
\* HashMapEngine (api/hashmap_engine.py).  Every operator takes the store S
\* and the clock reading t and gives the store after the call, or its answer.

\* _evict_lru: the oldest key of the first shard that has any recency entry.
HM_evict_shards(S) == {s \in Shards : S.access[s] # <<>>}

HM_evict_lru(S) ==
    IF HM_evict_shards(S) = {} THEN S
    ELSE LET s == CHOOSE x \in HM_evict_shards(S) : \A y \in HM_evict_shards(S) : x <= y
             oldest_key == S.access[s][1][1]
         IN  [S EXCEPT !.data[s] = Pop(@, oldest_key),
                       !.expiry[s] = Pop(@, oldest_key),
                       !.access[s] = SeqPop(@, oldest_key)]

\* A set that records the ttl itself as the deadline, not now + ttl.
HM_insert_ttl_as_deadline(S, k, v, ttl, t) ==
    LET s == get_shard(k)
        ttl_monotonic == ttl[1] * TicksPerSec
    IN  [data   |-> [S.data EXCEPT ![s] = Put(@, k, v)],
         expiry |-> [S.expiry EXCEPT ![s] =
                        IF ttl # None THEN Put(@, k, ttl_monotonic) ELSE Pop(@, k)],
         access |-> [S.access EXCEPT ![s] = move_to_end(SeqAssign(@, k, 0), k)],
         heap   |-> IF ttl # None THEN heappush(S.heap, <<ttl_monotonic, k, s>>)
                    ELSE S.heap]

\* set, up to the eviction check: recency, value, deadline and heap push.
\* The OrderedDict's values (the time of the access) are written and never
\* read by HashMapEngine: only its order is kept here, with 0 for the value.
HM_insert(S, k, v, ttl, t) ==
    LET s == get_shard(k)
        ttl_monotonic == t + ttl[1] * TicksPerSec
    IN  [data   |-> [S.data EXCEPT ![s] = Put(@, k, v)],
         expiry |-> [S.expiry EXCEPT ![s] =
                        IF ttl # None THEN Put(@, k, ttl_monotonic) ELSE Pop(@, k)],
         access |-> [S.access EXCEPT ![s] = move_to_end(SeqAssign(@, k, 0), k)],
         heap   |-> IF ttl # None THEN heappush(S.heap, <<ttl_monotonic, k, s>>)
                    ELSE S.heap]

\* The eviction check of set reads the byte count left by the previous set.
HM_set_evicts(mem) == mem > MaxMemoryBytes /\ eviction_policy = "lru"

HM_set(S, mem, k, v, ttl, t) ==
    IF HM_set_evicts(mem) THEN HM_evict_lru(HM_insert(S, k, v, ttl, t))
    ELSE HM_insert(S, k, v, ttl, t)

HM_memory_usage(S) == SumShards(S.data, {s \in Shards : DOMAIN S.data[s] # {}})

HM_expired(S, k, t) ==
    LET s == get_shard(k)
    IN  k \in DOMAIN S.expiry[s] /\ t >= S.expiry[s][k]

HM_get_result(S, k, t) ==
    LET s == get_shard(k)
    IN  IF HM_expired(S, k, t) THEN None
        ELSE IF k \in DOMAIN S.data[s] THEN Some(S.data[s][k]) ELSE None

HM_get(S, k, t) ==
    LET s == get_shard(k)
    IN  IF HM_expired(S, k, t)
        THEN [S EXCEPT !.data[s] = Pop(@, k), !.expiry[s] = Pop(@, k),
                       !.access[s] = SeqPop(@, k)]
        ELSE IF k \in SeqKeys(S.access[s])
             THEN [S EXCEPT !.access[s] = move_to_end(@, k)]
             ELSE S

HM_delete_result(S, k) == k \in DOMAIN S.data[get_shard(k)]

HM_delete(S, k) ==
    LET s == get_shard(k)
    IN  [S EXCEPT !.data[s] = Pop(@, k), !.expiry[s] = Pop(@, k),
                  !.access[s] = SeqPop(@, k)]

HM_exists_result(S, k, t) ==
    k \in DOMAIN S.data[get_shard(k)] /\ ~HM_expired(S, k, t)

\* exists drops an expired key from _data and _expiry, not from _access_times.
HM_exists(S, k, t) ==
    LET s == get_shard(k)
    IN  IF k \in DOMAIN S.data[s] /\ HM_expired(S, k, t)
        THEN [S EXCEPT !.data[s] = Pop(@, k), !.expiry[s] = Pop(@, k)]
        ELSE S

HM_expire_result(S, k) == k \in DOMAIN S.data[get_shard(k)]

\* An expire that does not look whether the key is there.
HM_expire_unchecked(S, k, ttl_sec, t) ==
    LET s == get_shard(k)
        ttl_monotonic == t + ttl_sec * TicksPerSec
    IN  [S EXCEPT !.expiry[s] = Put(@, k, ttl_monotonic),
                  !.heap = heappush(@, <<ttl_monotonic, k, s>>)]

HM_expire(S, k, ttl_sec, t) ==
    LET s == get_shard(k)
        ttl_monotonic == t + ttl_sec * TicksPerSec
    IN  IF k \notin DOMAIN S.data[s] THEN S
        ELSE [S EXCEPT !.expiry[s] = Put(@, k, ttl_monotonic),
                       !.heap = heappush(@, <<ttl_monotonic, k, s>>)]

\* ttl answers a float number of seconds, held here in ticks: None for a
\* missing key, -1.0 for a key without deadline, else max(0.0, remaining).
HM_ttl_result(S, k, t) ==
    LET s == get_shard(k)
    IN  IF k \notin DOMAIN S.data[s] THEN None
        ELSE IF k \notin DOMAIN S.expiry[s] THEN Some(0 - TicksPerSec)
        ELSE IF S.expiry[s][k] - t > 0 THEN Some(S.expiry[s][k] - t) ELSE Some(0)

\* ttl reads only: it leaves the store as it is.
HM_ttl(S, k, t) == S

HM_flush(S) ==
    [data   |-> [s \in Shards |-> EmptyDict],
     expiry |-> [s \in Shards |-> EmptyDict],
     access |-> [s \in Shards |-> <<>>],
     heap   |-> <<>>]

\* A check that looks for the key only, not for the deadline of the entry.
HM_cleanup_hit_any_deadline(S, e) == e[2] \in DOMAIN S.data[e[3]]

\* One heap entry popped by _cleanup_expired: the key goes only if the
\* shard still records exactly this deadline for it.
HM_cleanup_hit(S, e) ==
    /\ e[2] \in DOMAIN S.data[e[3]]
    /\ e[2] \in DOMAIN S.expiry[e[3]]
    /\ S.expiry[e[3]][e[2]] = e[1]

HM_cleanup_pop(S) ==
    LET e == Head(S.heap)
    IN  IF HM_cleanup_hit(S, e)
        THEN [S EXCEPT !.heap = Tail(@), !.data[e[3]] = Pop(@, e[2]),
                       !.expiry[e[3]] = Pop(@, e[2])]
        ELSE [S EXCEPT !.heap = Tail(@)]

RECURSIVE HM_cleanup_expired(_, _)
HM_cleanup_expired(S, t) ==
    IF S.heap # <<>> /\ S.heap[1][1] <= t
    THEN HM_cleanup_expired(HM_cleanup_pop(S), t)
    ELSE S

---------------------------------------------------------------------------
\* RedisLite (api/redislite.py), the store behind the RESP and HTTP servers.

\* min(items, key=time): the first entry, in dict order, of the least time.
RL_lru_key(a) ==
    LET i == CHOOSE x \in DOMAIN a :
                 /\ \A y \in DOMAIN a : a[x][2] <= a[y][2]
                 /\ \A y \in DOMAIN a : a[y][2] = a[x][2] => x <= y
    IN  a[i][1]

evict_lru_key(S, s) ==
    IF DOMAIN S.data[s] = {} \/ S.access[s] = <<>> THEN S
    ELSE IF RL_lru_key(S.access[s]) \in DOMAIN S.data[s]
         THEN [S EXCEPT !.data[s] = Pop(@, RL_lru_key(S.access[s])),
                        !.expiry[s] = Pop(@, RL_lru_key(S.access[s])),
                        !.access[s] = SeqPop(@, RL_lru_key(S.access[s]))]
         ELSE S

calculate_key_memory(k, v) == getsizeofKey(k) + getsizeof(v)

\* The memory check of set reads the total left by the last info().
RL_set_evicts(mem, k, v) ==
    mem + calculate_key_memory(k, v) > MaxMemoryBytes /\ eviction_policy = "lru"

RL_store(S, k, v, ttl, t) ==
    LET s == get_shard(k)
        expiry_monotonic == t + ttl[1] * TicksPerSec
    IN  [data   |-> [S.data EXCEPT ![s] = Put(@, k, v)],
         expiry |-> [S.expiry EXCEPT ![s] =
                        IF ttl # None THEN Put(@, k, expiry_monotonic) ELSE Pop(@, k)],
         access |-> [S.access EXCEPT ![s] = SeqAssign(@, k, t)],
         heap   |-> IF ttl # None THEN heappush(S.heap, <<expiry_monotonic, k, s>>)
                    ELSE S.heap]

RL_set(S, mem, k, v, ttl, t) ==
    IF RL_set_evicts(mem, k, v)
    THEN RL_store(evict_lru_key(S, get_shard(k)), k, v, ttl, t)
    ELSE RL_store(S, k, v, ttl, t)

RL_expired(S, k, t) ==
    LET s == get_shard(k)
    IN  k \in DOMAIN S.data[s] /\ k \in DOMAIN S.expiry[s] /\ t >= S.expiry[s][k]

RL_get_result(S, k, t) ==
    LET s == get_shard(k)
    IN  IF k \notin DOMAIN S.data[s] \/ RL_expired(S, k, t) THEN None
        ELSE Some(S.data[s][k])

RL_drop(S, k) ==
    LET s == get_shard(k)
    IN  [S EXCEPT !.data[s] = Pop(@, k), !.expiry[s] = Pop(@, k),
                  !.access[s] = SeqPop(@, k)]

RL_get(S, k, t) ==
    LET s == get_shard(k)
    IN  IF k \notin DOMAIN S.data[s] THEN S
        ELSE IF RL_expired(S, k, t) THEN RL_drop(S, k)
        ELSE [S EXCEPT !.access[s] = SeqAssign(@, k, t)]

RL_delete_result(S, k) == k \in DOMAIN S.data[get_shard(k)]

RL_delete(S, k) == IF k \in DOMAIN S.data[get_shard(k)] THEN RL_drop(S, k) ELSE S

RL_exists_result(S, k, t) ==
    k \in DOMAIN S.data[get_shard(k)] /\ ~RL_expired(S, k, t)

RL_exists(S, k, t) == IF RL_expired(S, k, t) THEN RL_drop(S, k) ELSE S

\* ttl answers whole seconds: -2 missing, -1 no deadline, else max(0, int(remaining)).
RL_ttl_result(S, k, t) ==
    LET s == get_shard(k)
    IN  IF k \notin DOMAIN S.data[s] THEN 0 - 2
        ELSE IF k \notin DOMAIN S.expiry[s] THEN 0 - 1
        ELSE IF S.expiry[s][k] - t > 0 THEN (S.expiry[s][k] - t) \div TicksPerSec ELSE 0

\* ttl reads only: it leaves the store as it is.
RL_ttl(S, k, t) == S

RL_flushdb(S) ==
    [data   |-> [s \in Shards |-> EmptyDict],
     expiry |-> [s \in Shards |-> EmptyDict],
     access |-> [s \in Shards |-> <<>>],
     heap   |-> <<>>]

RECURSIVE SumKeySizes(_, _)
SumKeySizes(f, ks) ==
    IF ks = {} THEN 0
    ELSE LET k == CHOOSE x \in ks : TRUE
         IN  calculate_key_memory(k, f[k]) + SumKeySizes(f, ks \ {k})

RECURSIVE update_memory_stats(_, _)
update_memory_stats(D, ss) ==
    IF ss = {} THEN 0
    ELSE LET s == CHOOSE x \in ss : TRUE
         IN  SumKeySizes(D[s], DOMAIN D[s]) + update_memory_stats(D, ss \ {s})

\* One heap entry popped by _expiration_loop: the key goes if the shard
\* records a deadline for it that has passed.
RL_expiration_hit(S, e, t) ==
    e[2] \in DOMAIN S.expiry[e[3]] /\ S.expiry[e[3]][e[2]] <= t

RL_expiration_pop(S, t) ==
    LET e == Head(S.heap)
    IN  IF RL_expiration_hit(S, e, t)
        THEN [S EXCEPT !.heap = Tail(@), !.data[e[3]] = Pop(@, e[2]),
                       !.expiry[e[3]] = Pop(@, e[2]),
                       !.access[e[3]] = SeqPop(@, e[2])]
        ELSE [S EXCEPT !.heap = Tail(@)]

RECURSIVE expiration_loop(_, _)
expiration_loop(S, t) ==
    IF S.heap # <<>> /\ S.heap[1][1] <= t
    THEN expiration_loop(RL_expiration_pop(S, t), t)
    ELSE S

\* RedisProtocolHandler._cmd_expire (api/tcp_server.py): exists, get, then
\* a set of the value read with the new ttl.
cmd_expire_result(S, k, t) == RL_exists_result(S, k, t)

cmd_expire(S, mem, k, ttl_sec, t) ==
    IF ~RL_exists_result(S, k, t) THEN RL_exists(S, k, t)
    ELSE RL_set(RL_get(RL_exists(S, k, t), k, t), mem, k,
                RL_get_result(S, k, t)[1], Some(ttl_sec), t)

---------------------------------------------------------------------------
\* The running store: each command goes to the implementation in use.

IsHM == engine = "HashMapEngine"

KeysOf(S) == {k \in Keys : k \in DOMAIN S.data[get_shard(k)]}

do_set(S, mem, k, v, ttl, t) ==
    IF IsHM THEN HM_set(S, mem, k, v, ttl, t) ELSE RL_set(S, mem, k, v, ttl, t)

do_get(S, k, t) == IF IsHM THEN HM_get(S, k, t) ELSE RL_get(S, k, t)

get_result(S, k, t) == IF IsHM THEN HM_get_result(S, k, t) ELSE RL_get_result(S, k, t)

do_delete(S, k) == IF IsHM THEN HM_delete(S, k) ELSE RL_delete(S, k)

delete_result(S, k) == IF IsHM THEN HM_delete_result(S, k) ELSE RL_delete_result(S, k)

do_exists(S, k, t) == IF IsHM THEN HM_exists(S, k, t) ELSE RL_exists(S, k, t)

exists_result(S, k, t) ==
    IF IsHM THEN HM_exists_result(S, k, t) ELSE RL_exists_result(S, k, t)

do_expire(S, mem, k, ttl_sec, t) ==
    IF IsHM THEN HM_expire(S, k, ttl_sec, t) ELSE cmd_expire(S, mem, k, ttl_sec, t)

expire_result(S, k, t) ==
    IF IsHM THEN HM_expire_result(S, k) ELSE cmd_expire_result(S, k, t)

do_ttl(S, k, t) == IF IsHM THEN HM_ttl(S, k, t) ELSE RL_ttl(S, k, t)

\* The answer of TTL in ticks (HashMapEngine) or whole seconds (RedisLite).
ttl_result(S, k, t) ==
    IF IsHM THEN HM_ttl_result(S, k, t) ELSE Some(RL_ttl_result(S, k, t))

do_flush(S) == IF IsHM THEN HM_flush(S) ELSE RL_flushdb(S)

do_sweep(S, t) == IF IsHM THEN HM_cleanup_expired(S, t) ELSE expiration_loop(S, t)

\* Whether the shard records a deadline for k that has passed at t.
Due(S, k, t) ==
    LET s == get_shard(k)
    IN  k \in DOMAIN S.data[s] /\ k \in DOMAIN S.expiry[s] /\ S.expiry[s][k] <= t

---------------------------------------------------------------------------
\* History: what the commands issued so far say about each key.
\*   st    "absent" (never set, deleted or flushed), "set", "gone" (evicted by
\*         the SET of another key), "selfevicted" (evicted by its own SET)
\*   v     the value of the last SET
\*   dl    the deadline the last SET or EXPIRE gave it
\*   sdl   the deadline the last SET gave it
\*   expd  an EXPIRE took effect since the last SET

Absent == [st |-> "absent", v |-> 0, dl |-> None, sdl |-> None, expd |-> FALSE]

Deadline(ttl, t) == IF ttl = None THEN None ELSE Some(t + ttl[1] * TicksPerSec)

H_live(h, k, t) ==
    /\ h[k].st \in {"set", "selfevicted"}
    /\ (h[k].dl = None \/ t < h[k].dl[1])

H_evict(h, victims, self) ==
    [k \in Keys |->
        IF k \notin victims THEN h[k]
        ELSE IF k = self THEN [h[k] EXCEPT !.st = "selfevicted"]
        ELSE [Absent EXCEPT !.st = "gone"]]

H_put(h, k, v, ttl, t) ==
    [h EXCEPT ![k] = [st |-> "set", v |-> v, dl |-> Deadline(ttl, t),
                      sdl |-> Deadline(ttl, t), expd |-> FALSE]]

H_expire(h, k, ttl_sec, t) ==
    IF h[k].st = "set" /\ H_live(h, k, t)
    THEN [h EXCEPT ![k].dl = Some(t + ttl_sec * TicksPerSec), ![k].expd = TRUE]
    ELSE h

\* The keys a SET removed by eviction.  HashMapEngine evicts after storing
\* the key, RedisLite before.
Victims(S, mem, k, v, ttl, t) ==
    IF IsHM THEN KeysOf(HM_insert(S, k, v, ttl, t)) \ KeysOf(HM_set(S, mem, k, v, ttl, t))
    ELSE KeysOf(S) \ KeysOf(RL_set(S, mem, k, v, ttl, t))

---------------------------------------------------------------------------
\* Actions.

\* PersistenceManager.__init__ on an empty data directory, server running.
WalInit(wired, policy) ==
    /\ wal_wired = wired
    /\ aof_fsync_policy = policy
    /\ aof_buffer = <<>>
    /\ aof_file = <<>>
    /\ aof_synced = 0
    /\ aof_corruption_skipped = 0
    /\ proc = "running"
    /\ replay_pos = 0
    /\ replay_done = FALSE
    /\ applied = <<>>
    /\ acked = <<>>
    /\ written = <<>>
    /\ damage = None
    /\ stop_kind = "none"
    /\ restarts = 0

Replicas == {"r1", "r2"}

\* ReplicationMaster.__init__, with no replica connected yet.
ReplInit ==
    /\ command_queue = <<>>
    /\ command_id_counter = 0
    /\ replication_offset = 0
    /\ handler = [r \in Replicas |-> [state |-> "closed", it |-> 0]]
    /\ link = [r \in Replicas |-> <<>>]
    /\ replica_offset = [r \in Replicas |-> 0]
    /\ replica_applied = [r \in Replicas |-> <<>>]
    /\ master_applied = <<>>
    /\ joined = [r \in Replicas |-> None]

\* ReplicationMasterPSYNC.__init__ and ReplicationReplicaPSYNC.__init__.
PsyncInit ==
    /\ psync_replication_id = "master"
    /\ psync_replication_offset = 0
    /\ command_backlog = <<>>
    /\ backlog_size_bytes = 0
    /\ replica_offsets = None
    /\ replica_replication_id = "?"
    /\ last_offset = 0
    /\ link_up = FALSE
    /\ stream = <<>>
    /\ psync_applied = <<>>
    /\ psync_history = <<>>
    /\ last_sync = [kind |-> "none", known_repl_id |-> "?", known_offset |-> 0,
                    master_id |-> "master", backlog_start |-> 0, connections |-> 0]
    /\ replica_data = <<>>

Clients == {"client1", "client2"}

Threads == Clients \cup {"ttl_daemon"}

LockKeys == {1, 2}

heap_lock == <<"heap", 0>>

shard_lock(shard_id) == <<"shard", shard_id>>

Locks == {heap_lock} \cup {shard_lock(get_shard(k)) : k \in LockKeys}

\* The locks as the constructors of the engines leave them, no thread started.
LockInit ==
    /\ lock_owner = [l \in Locks |-> "none"]
    /\ lock_count = [l \in Locks |-> 0]
    /\ thread_pc = [t \in Threads |-> "idle"]
    /\ thread_held = [t \in Threads |-> <<>>]
    /\ thread_want = [t \in Threads |-> None]
    /\ heap_shards = <<>>

\* redislite.RedisLite.__init__; the wall clock may read anything at start.
KvInit ==
    /\ kv_data = EmptyDict
    /\ kv_expiry = EmptyDict
    /\ wall_clock = 0
    /\ mono_clock = 0
    /\ kv_hist = [k \in Keys |-> [present |-> FALSE, v |-> 0, dl |-> None, jumped |-> FALSE]]

\* The value a handler holds when get answered None.
NoValue == 0

\* No command has been answered yet.
NoReply == [origin |-> "none", reply |-> "none"]

\* The server as index.py configures it by default.
ModeInit ==
    /\ replica_mode = "master"
    /\ last_reply = NoReply

\* No flush has failed and PersistenceManager.__init__ made no error counter.
IoInit ==
    /\ io_failed = FALSE
    /\ log_raised = FALSE
    /\ error_count = 0

\* No snapshot was ever made.
SnapInit ==
    /\ dump_file = None
    /\ tmp_file = None
    /\ snap_pc = "idle"
    /\ snap_state = EmptyDict
    /\ snap_prev = None

\* The server is up: it listens, its threads run, nobody asked it to stop.
ShutInit ==
    /\ accepting = TRUE
    /\ workers = {"expiration", "persistence"}
    /\ sd_pc = "serving"
    /\ shutdown_cmd = FALSE

\* A connection on which nothing was sent.
RespInit ==
    /\ unread = <<>>
    /\ parser_buffer = <<>>
    /\ replies = <<>>
    /\ expected = <<>>

\* No FULLSYNC under way.
FullsyncInit ==
    /\ fs_pc = "idle"
    /\ fs_header_offset = 0
    /\ fs_snapshot_offset = 0

\* No flush is under way.
FlushInit == flush_pc = "idle"

\* No EXPIRE is under way.
ExpInit ==
    /\ exp_pc = "idle"
    /\ exp_iface = "resp"
    /\ exp_key = 1
    /\ exp_ttl = 1
    /\ exp_value = NoValue

Install(S) ==
    /\ data' = S.data
    /\ expiry' = S.expiry
    /\ access_times' = S.access
    /\ expiry_heap' = S.heap

Init ==
    /\ engine \in {"HashMapEngine", "RedisLite"}
    /\ data = [s \in Shards |-> EmptyDict]
    /\ expiry = [s \in Shards |-> EmptyDict]
    /\ access_times = [s \in Shards |-> <<>>]
    /\ expiry_heap = <<>>
    /\ memory_bytes = 0
    /\ now = 0
    /\ hist = [k \in Keys |-> Absent]
    /\ WalInit(FALSE, "everysec")
    /\ ReplInit
    /\ PsyncInit
    /\ LockInit
    /\ KvInit
    /\ ExpInit
    /\ FlushInit
    /\ FullsyncInit
    /\ RespInit
    /\ ShutInit
    /\ SnapInit
    /\ IoInit
    /\ ModeInit

Set(k, v, ttl) ==
    /\ ttl # None => Len(expiry_heap) < MaxHeap
    /\ LET S1 == do_set(Store, memory_bytes, k, v, ttl, now)
           victims == Victims(Store, memory_bytes, k, v, ttl, now)
       IN  /\ Install(S1)
           /\ memory_bytes' = IF IsHM THEN HM_memory_usage(S1) ELSE memory_bytes
           /\ hist' = IF IsHM
                      THEN H_evict(H_put(hist, k, v, ttl, now), victims, k)
                      ELSE H_put(H_evict(hist, victims, k), k, v, ttl, now)
    /\ UNCHANGED <<engine, now>>
    /\ UNCHANGED otherThanStore

Get(k) ==
    /\ Install(do_get(Store, k, now))
    /\ UNCHANGED <<engine, memory_bytes, now, hist>>
    /\ UNCHANGED otherThanStore

Delete(k) ==
    /\ Install(do_delete(Store, k))
    /\ hist' = [hist EXCEPT ![k] = Absent]
    /\ UNCHANGED <<engine, memory_bytes, now>>
    /\ UNCHANGED otherThanStore

Exists(k) ==
    /\ Install(do_exists(Store, k, now))
    /\ UNCHANGED <<engine, memory_bytes, now, hist>>
    /\ UNCHANGED otherThanStore

Expire(k, ttl_sec) ==
    /\ Len(expiry_heap) < MaxHeap
    /\ LET S1 == do_expire(Store, memory_bytes, k, ttl_sec, now)
           victims == (KeysOf(Store) \ KeysOf(S1)) \ {x \in Keys : Due(Store, x, now)}
       IN  /\ Install(S1)
           /\ hist' = H_evict(H_expire(hist, k, ttl_sec, now), victims, k)
    /\ UNCHANGED <<engine, memory_bytes, now>>
    /\ UNCHANGED otherThanStore

Ttl(k) ==
    /\ Install(do_ttl(Store, k, now))
    /\ UNCHANGED <<engine, memory_bytes, now, hist>>
    /\ UNCHANGED otherThanStore

Flush ==
    /\ Install(do_flush(Store))
    /\ hist' = [k \in Keys |-> Absent]
    /\ UNCHANGED <<engine, memory_bytes, now>>
    /\ UNCHANGED otherThanStore

\* RedisLite.info: the only place total_memory_bytes is recomputed.
Info ==
    /\ ~IsHM
    /\ memory_bytes' = update_memory_stats(data, {s \in Shards : DOMAIN data[s] # {}})
    /\ UNCHANGED <<engine, data, expiry, access_times, expiry_heap, now, hist>>
    /\ UNCHANGED otherThanStore

\* One wake-up of the expiration worker.
Sweep ==
    /\ Install(do_sweep(Store, now))
    /\ UNCHANGED <<engine, memory_bytes, now, hist>>
    /\ UNCHANGED otherThanStore

Tick ==
    /\ now < MaxTime
    /\ now' = now + 1
    /\ UNCHANGED <<engine, data, expiry, access_times, expiry_heap, memory_bytes, hist>>
    /\ UNCHANGED otherThanStore

Next ==
    \/ \E k \in Keys, v \in Values, ttl \in OptTTL : Set(k, v, ttl)
    \/ \E k \in Keys : Get(k)
    \/ \E k \in Keys : Delete(k)
    \/ \E k \in Keys : Exists(k)
    \/ \E k \in Keys, ttl_sec \in TTLSecs : Expire(k, ttl_sec)
    \/ \E k \in Keys : Ttl(k)
    \/ Flush
    \/ Info
    \/ Sweep
    \/ Tick

Spec == Init /\ [][Next]_vars

---------------------------------------------------------------------------
\* Persistence (api/persistence.py): the write-ahead log.  The file is a
\* sequence of cells 0 .. CellBase - 1.  A record is framed as LenCells cells
\* of payload length (big-endian), the payload, and CrcCells cells of checksum.

KeyCode(k) == (k \div LOCK_STRIPE_COUNT) + 1

KeyOfCode(c) == (c - 1) * LOCK_STRIPE_COUNT + 1

\* AOFCommand: the fields that are replayed (the timestamp is never read).
AOFCommand(c, k, v, ttl) == [command |-> c, key |-> k, value |-> v, ttl |-> ttl]

\* to_json: the serialized payload.  Its length depends on the command.
to_json(cmd) ==
    IF cmd.command = "SET"
    THEN <<1, KeyCode(cmd.key), cmd.value[1]>> \o
         (IF cmd.ttl # None THEN <<cmd.ttl[1]>> ELSE <<>>)
    ELSE IF cmd.command = "DEL" THEN <<2, KeyCode(cmd.key)>>
    ELSE <<3, KeyCode(cmd.key), cmd.ttl[1]>>

\* json.loads and AOFCommand(**record_data): None when the payload is no record.
json_loads(p) ==
    IF Len(p) < 2 \/ p[2] \notin {KeyCode(k) : k \in Keys} THEN None
    ELSE IF p[1] = 1 /\ Len(p) = 3 /\ p[3] \in Values
         THEN Some(AOFCommand("SET", KeyOfCode(p[2]), Some(p[3]), None))
    ELSE IF p[1] = 1 /\ Len(p) = 4 /\ p[3] \in Values /\ p[4] \in TTLSecs
         THEN Some(AOFCommand("SET", KeyOfCode(p[2]), Some(p[3]), Some(p[4])))
    ELSE IF p[1] = 2 /\ Len(p) = 2
         THEN Some(AOFCommand("DEL", KeyOfCode(p[2]), None, None))
    ELSE IF p[1] = 3 /\ Len(p) = 3 /\ p[3] \in TTLSecs
         THEN Some(AOFCommand("EXPIRE", KeyOfCode(p[2]), None, Some(p[3])))
    ELSE None

\* zlib.crc32, scaled to one cell: a position-weighted sum.
RECURSIVE crc32sum(_, _)
crc32sum(p, i) == IF i > Len(p) THEN 0 ELSE i * p[i] + crc32sum(p, i + 1)

crc32(p) == (crc32sum(p, 1) + Len(p)) % CellBase

\* struct.pack('>I', n) and struct.unpack('>I', b), on LenCells = 2 cells.
pack_length(n) == <<n \div CellBase, n % CellBase>>

unpack_length(b) == b[1] * CellBase + b[2]

pack_crc(p) == <<crc32(p)>>

\* The widths of the two fixed fields of a record.
LenCells == Len(pack_length(0))

CrcCells == Len(pack_crc(<<>>))

to_wal_format(cmd) ==
    pack_length(Len(to_json(cmd))) \o to_json(cmd) \o pack_crc(to_json(cmd))

\* from_wal_format on a full record: None when the CRC or the payload is bad.
from_wal_format(rec) ==
    IF Len(rec) < LenCells + CrcCells THEN None
    ELSE LET length == unpack_length(SubSeq(rec, 1, LenCells))
             json_data == SubSeq(rec, LenCells + 1, LenCells + length)
             stored_crc == SubSeq(rec, LenCells + length + 1, LenCells + length + CrcCells)
         IN  IF pack_crc(json_data) # stored_crc THEN None ELSE json_loads(json_data)

RECURSIVE wal_bytes(_)
wal_bytes(cmds) ==
    IF cmds = <<>> THEN <<>> ELSE to_wal_format(Head(cmds)) \o wal_bytes(Tail(cmds))

\* f.read(n) at offset pos.
file_read(f, pos, n) ==
    SubSeq(f, pos + 1, IF pos + n <= Len(f) THEN pos + n ELSE Len(f))

\* One iteration of the loop of replay_aof at offset pos: what it finds.
\*   "eof"      fewer than LenCells cells are left: end of file, or truncated
\*   "partial"  the record is cut short
\*   "crc"      from_wal_format refused the record
\*   "ok"       a record, with the offset after it
replay_read(f, pos) ==
    LET length_bytes == file_read(f, pos, LenCells)
    IN  IF Len(length_bytes) < LenCells
        THEN [kind |-> "eof", cmd |-> None, pos |-> pos + Len(length_bytes)]
        ELSE LET length == unpack_length(length_bytes)
                 record_data == length_bytes \o
                                file_read(f, pos + LenCells, length + CrcCells)
             IN  IF Len(record_data) < length + LenCells + CrcCells
                 THEN [kind |-> "partial", cmd |-> None, pos |-> pos + Len(record_data)]
                 ELSE IF from_wal_format(record_data) = None
                 THEN [kind |-> "crc", cmd |-> None, pos |-> pos + Len(record_data)]
                 ELSE [kind |-> "ok", cmd |-> from_wal_format(record_data),
                       pos |-> pos + Len(record_data)]

\* A loop that passes over a record that failed its check and reads on.
skip_bad_record(r) == [stop |-> FALSE, pos |-> r.pos]

\* What the loop does with a record that failed its check: it stops.
after_bad_record(r) == [stop |-> TRUE, pos |-> r.pos]

\* apply_aof_command, the callback of RecoveryManager.recover.
apply_aof_command(S, mem, cmd, t) ==
    IF cmd.command = "SET" THEN RL_set(S, mem, cmd.key, cmd.value[1], cmd.ttl, t)
    ELSE IF cmd.command = "DEL" THEN RL_delete(S, cmd.key)
    ELSE IF RL_get_result(S, cmd.key, t) # None
         THEN RL_set(RL_get(S, cmd.key, t), mem, cmd.key,
                     RL_get_result(S, cmd.key, t)[1], cmd.ttl, t)
         ELSE RL_get(S, cmd.key, t)

\* The server's handlers of a mutating command (api/index.py set_key,
\* delete_key, expire_key; api/tcp_server.py _cmd_set, _cmd_del, _cmd_expire).
handle_command(S, mem, cmd, t) ==
    IF cmd.command = "SET" THEN RL_set(S, mem, cmd.key, cmd.value[1], cmd.ttl, t)
    ELSE IF cmd.command = "DEL" THEN RL_delete(S, cmd.key)
    ELSE cmd_expire(S, mem, cmd.key, cmd.ttl[1], t)

EmptyStore ==
    [data   |-> [s \in Shards |-> EmptyDict],
     expiry |-> [s \in Shards |-> EmptyDict],
     access |-> [s \in Shards |-> <<>>],
     heap   |-> <<>>]

---------------------------------------------------------------------------
\* The server with its write-ahead log: writes, the flush daemon, shutdown,
\* crashes, damage to the file while the server is down, and recovery.

\* The mutating commands the clients of this part issue, all on one key.
LogKeys == {k \in Keys : k < LOCK_STRIPE_COUNT}

Commands ==
    {AOFCommand("SET", k, Some(v), ttl) : k \in LogKeys, v \in Values, ttl \in {None, Some(1)}}
    \cup {AOFCommand("DEL", k, None, None) : k \in LogKeys}
    \cup {AOFCommand("EXPIRE", k, None, Some(1)) : k \in LogKeys}

Min(a, b) == IF a <= b THEN a ELSE b

\* Whether flush_aof calls os.fsync; due is whether aof_fsync_interval_secs
\* have passed since _last_fsync_time.
flush_fsyncs(policy, due) == policy = "always" \/ (policy = "everysec" /\ due)

\* flush_aof: the buffer is appended to the file and cleared.
flush_aof(W, due) ==
    IF W.buffer = <<>> THEN W
    ELSE [buffer  |-> <<>>,
          file    |-> W.file \o wal_bytes(W.buffer),
          synced  |-> IF flush_fsyncs(aof_fsync_policy, due)
                      THEN Len(W.file \o wal_bytes(W.buffer)) ELSE W.synced,
          written |-> W.written \o W.buffer]

\* log_command: the command is buffered; the buffer is written only when it
\* has grown past the limit.
log_command(W, cmd, due) ==
    IF Len(W.buffer) + 1 > AofBufferLimit
    THEN flush_aof([W EXCEPT !.buffer = Append(@, cmd)], due)
    ELSE [W EXCEPT !.buffer = Append(@, cmd)]

Wal == [buffer |-> aof_buffer, file |-> aof_file, synced |-> aof_synced,
        written |-> written]

InstallWal(W) ==
    /\ aof_buffer' = W.buffer
    /\ aof_file' = W.file
    /\ aof_synced' = W.synced
    /\ written' = W.written

WalStoreInit ==
    /\ engine = "RedisLite"
    /\ data = [s \in Shards |-> EmptyDict]
    /\ expiry = [s \in Shards |-> EmptyDict]
    /\ access_times = [s \in Shards |-> <<>>]
    /\ expiry_heap = <<>>
    /\ memory_bytes = 0
    /\ now = 0
    /\ hist = [k \in Keys |-> Absent]

InitWAL ==
    /\ WalStoreInit
    /\ \E wired \in BOOLEAN, policy \in {"always", "everysec", "no"} :
           WalInit(wired, policy)
    /\ ReplInit
    /\ PsyncInit
    /\ LockInit
    /\ KvInit
    /\ ExpInit
    /\ FlushInit
    /\ FullsyncInit
    /\ RespInit
    /\ ShutInit
    /\ SnapInit
    /\ IoInit
    /\ ModeInit

\* A mutating command of a client: the handler changes the store and
\* acknowledges.  No handler of the server calls log_command; wal_wired is a
\* server whose handlers do, as the docstring of log_command describes.
Write(cmd, due) ==
    /\ proc = "running"
    /\ Len(acked) < MaxLog
    /\ Install(handle_command(Store, memory_bytes, cmd, now))
    /\ InstallWal(IF wal_wired THEN log_command(Wal, cmd, due) ELSE Wal)
    /\ acked' = Append(acked, cmd)
    /\ UNCHANGED <<engine, memory_bytes, now, hist>>
    /\ UNCHANGED <<wal_wired, aof_fsync_policy, aof_corruption_skipped, proc,
                   replay_pos, replay_done, applied, damage, stop_kind, restarts>>
    /\ UNCHANGED otherThanWal

\* One wake-up of _persistence_loop that finds the flush interval passed.
DaemonFlush(due) ==
    /\ proc = "running"
    /\ aof_buffer # <<>>
    /\ InstallWal(flush_aof(Wal, due))
    /\ UNCHANGED storeVars
    /\ UNCHANGED <<wal_wired, aof_fsync_policy, aof_corruption_skipped, proc,
                   replay_pos, replay_done, applied, acked, damage, stop_kind,
                   restarts>>
    /\ UNCHANGED otherThanWal

\* The shutdown half of lifespan: flush_aof, then PersistenceManager.shutdown.
Shutdown(due) ==
    /\ proc = "running"
    /\ InstallWal(flush_aof(flush_aof(Wal, due), due))
    /\ proc' = "down"
    /\ stop_kind' = "clean"
    /\ UNCHANGED storeVars
    /\ UNCHANGED <<wal_wired, aof_fsync_policy, aof_corruption_skipped,
                   replay_pos, replay_done, applied, acked, damage, restarts>>
    /\ UNCHANGED otherThanWal

\* SIGKILL: the process and its buffer are gone, the file stays as written.
Crash ==
    /\ proc \in {"running", "replaying"}
    /\ proc' = "down"
    /\ stop_kind' = "crash"
    /\ aof_buffer' = <<>>
    /\ UNCHANGED storeVars
    /\ UNCHANGED <<wal_wired, aof_fsync_policy, aof_file, aof_synced,
                   aof_corruption_skipped, replay_pos, replay_done, applied,
                   acked, written, damage, restarts>>
    /\ UNCHANGED otherThanWal

\* Power loss: cells written and not fsynced may be lost from the end.
PowerLoss(n) ==
    /\ proc = "running"
    /\ n \in aof_synced .. Len(aof_file)
    /\ n < Len(aof_file)
    /\ damage = None
    /\ proc' = "down"
    /\ stop_kind' = "crash"
    /\ aof_buffer' = <<>>
    /\ aof_file' = SubSeq(aof_file, 1, n)
    /\ damage' = Some(n)
    /\ UNCHANGED storeVars
    /\ UNCHANGED <<wal_wired, aof_fsync_policy, aof_synced, aof_corruption_skipped,
                   replay_pos, replay_done, applied, acked, written, restarts>>
    /\ UNCHANGED otherThanWal

\* The file loses its tail from offset n while the server is down.
Truncate(n) ==
    /\ proc = "down"
    /\ damage = None
    /\ n \in 0 .. (Len(aof_file) - 1)
    /\ aof_file' = SubSeq(aof_file, 1, n)
    /\ aof_synced' = Min(aof_synced, n)
    /\ damage' = Some(n)
    /\ UNCHANGED storeVars
    /\ UNCHANGED <<wal_wired, aof_fsync_policy, aof_buffer, aof_corruption_skipped,
                   proc, replay_pos, replay_done, applied, acked, written,
                   stop_kind, restarts>>
    /\ UNCHANGED otherThanWal

\* The cell at offset n is altered while the server is down.
Corrupt(n, c) ==
    /\ proc = "down"
    /\ damage = None
    /\ n \in 0 .. (Len(aof_file) - 1)
    /\ aof_file[n + 1] # c
    /\ aof_file' = [aof_file EXCEPT ![n + 1] = c]
    /\ damage' = Some(n)
    /\ UNCHANGED storeVars
    /\ UNCHANGED <<wal_wired, aof_fsync_policy, aof_buffer, aof_synced,
                   aof_corruption_skipped, proc, replay_pos, replay_done, applied,
                   acked, written, stop_kind, restarts>>
    /\ UNCHANGED otherThanWal

\* A new process: an empty store, a new PersistenceManager, and
\* RecoveryManager.recover up to the call of replay_aof.  No snapshot exists:
\* nothing in the server calls create_snapshot.
Restart ==
    /\ proc = "down"
    /\ restarts < MaxRestarts
    /\ restarts' = restarts + 1
    /\ proc' = "replaying"
    /\ Install(EmptyStore)
    /\ memory_bytes' = 0
    /\ aof_buffer' = <<>>
    /\ aof_corruption_skipped' = 0
    /\ replay_pos' = 0
    /\ replay_done' = FALSE
    /\ applied' = <<>>
    /\ UNCHANGED <<engine, now, hist>>
    /\ UNCHANGED <<wal_wired, aof_fsync_policy, aof_file, aof_synced, acked,
                   written, damage, stop_kind>>
    /\ UNCHANGED otherThanWal

\* One iteration of the loop of replay_aof.
ReplayStep ==
    /\ proc = "replaying"
    /\ ~replay_done
    /\ LET r == replay_read(aof_file, replay_pos)
       IN  \/ /\ r.kind = "ok"
              /\ Install(apply_aof_command(Store, memory_bytes, r.cmd[1], now))
              /\ applied' = Append(applied, r.cmd[1])
              /\ replay_pos' = r.pos
              /\ UNCHANGED <<replay_done, aof_corruption_skipped>>
           \/ /\ r.kind = "eof"
              /\ replay_done' = TRUE
              /\ replay_pos' = r.pos
              /\ UNCHANGED <<data, expiry, access_times, expiry_heap, applied,
                             aof_corruption_skipped>>
           \/ /\ r.kind \in {"partial", "crc"}
              /\ replay_done' = after_bad_record(r).stop
              /\ replay_pos' = after_bad_record(r).pos
              /\ aof_corruption_skipped' = aof_corruption_skipped + 1
              /\ UNCHANGED <<data, expiry, access_times, expiry_heap, applied>>
    /\ UNCHANGED <<engine, memory_bytes, now, hist>>
    /\ UNCHANGED <<wal_wired, aof_fsync_policy, aof_buffer, aof_file, aof_synced,
                   proc, acked, written, damage, stop_kind, restarts>>
    /\ UNCHANGED otherThanWal

\* recover returns and the server takes clients.
Recovered ==
    /\ proc = "replaying"
    /\ replay_done
    /\ proc' = "running"
    /\ UNCHANGED storeVars
    /\ UNCHANGED <<wal_wired, aof_fsync_policy, aof_buffer, aof_file, aof_synced,
                   aof_corruption_skipped, replay_pos, replay_done, applied, acked,
                   written, damage, stop_kind, restarts>>
    /\ UNCHANGED otherThanWal



NextWAL ==
    \/ \E cmd \in Commands, due \in BOOLEAN : Write(cmd, due)
    \/ \E due \in BOOLEAN : DaemonFlush(due)
    \/ \E due \in BOOLEAN : Shutdown(due)
    \/ Crash
    \/ \E n \in 0 .. Len(aof_file) : PowerLoss(n)
    \/ Restart
    \/ ReplayStep
    \/ Recovered

SpecWAL == InitWAL /\ [][NextWAL]_vars

\* Recovery from a damaged file: a server that logged cmds under policy
\* "always" and was shut down; its file is then damaged and replayed.
RECURSIVE SeqsUpTo(_, _)
SeqsUpTo(S, n) ==
    IF n = 0 THEN {<<>>}
    ELSE SeqsUpTo(S, n - 1) \cup
         {Append(q, x) : q \in {r \in SeqsUpTo(S, n - 1) : Len(r) = n - 1}, x \in S}

InitReplay ==
    /\ WalStoreInit
    /\ \E cmds \in SeqsUpTo(Commands, MaxLog) :
           /\ aof_file = wal_bytes(cmds)
           /\ aof_synced = Len(wal_bytes(cmds))
           /\ acked = cmds
           /\ written = cmds
    /\ wal_wired = TRUE
    /\ aof_fsync_policy = "always"
    /\ aof_buffer = <<>>
    /\ aof_corruption_skipped = 0
    /\ proc = "down"
    /\ replay_pos = 0
    /\ replay_done = FALSE
    /\ applied = <<>>
    /\ damage = None
    /\ stop_kind = "clean"
    /\ restarts = 0
    /\ ReplInit
    /\ PsyncInit
    /\ LockInit
    /\ KvInit
    /\ ExpInit
    /\ FlushInit
    /\ FullsyncInit
    /\ RespInit
    /\ ShutInit
    /\ SnapInit
    /\ IoInit
    /\ ModeInit

NextReplay ==
    \/ \E n \in 0 .. Len(aof_file) : Truncate(n)
    \/ \E n \in 0 .. Len(aof_file), c \in 0 .. (CellBase - 1) : Corrupt(n, c)
    \/ Restart
    \/ ReplayStep
    \/ Recovered

SpecReplay == InitReplay /\ [][NextReplay]_vars

---------------------------------------------------------------------------
\* Replication (api/replication.py): the master queues commands, one
\* coroutine per connected replica sends the queue and clears it, and each
\* replica applies the lines it reads.

ReplicationCommand(id, c, k, v, ttl) ==
    [id |-> id, command |-> c, key |-> k, value |-> v, ttl |-> ttl]

\* queue_command: the next id is taken and the command appended.
queue_command(q, counter, c, k, v, ttl) ==
    Append(q, ReplicationCommand(counter + 1, c, k, v, ttl))

\* command_queue_lock is an RLock owned by the master's event-loop thread
\* from the moment a coroutine enters the with block until every coroutine
\* has left it: it is held across await writer.drain().
queue_lock_held == \E r \in Replicas : handler[r].state = "sending"

\* A replica connects: handle_replica_connection starts.
ReplicaConnect(r) ==
    /\ handler[r].state = "closed"
    /\ joined[r] = None
    /\ handler' = [handler EXCEPT ![r] = [state |-> "idle", it |-> 0]]
    /\ joined' = [joined EXCEPT ![r] = Some(Len(master_applied))]
    /\ UNCHANGED <<command_queue, command_id_counter, replication_offset, link,
                   replica_offset, replica_applied, master_applied>>
    /\ UNCHANGED <<storeVars, otherThanRepl>>

\* POST /api/set (index.py set_key): store.set, then queue_command.
HttpSet(k, v, ttl) ==
    /\ Len(master_applied) < MaxWrites
    /\ ~queue_lock_held
    /\ Install(RL_set(Store, memory_bytes, k, v, ttl, now))
    /\ command_queue' = queue_command(command_queue, command_id_counter, "SET", k, Some(v), ttl)
    /\ command_id_counter' = command_id_counter + 1
    /\ master_applied' = Append(master_applied, AOFCommand("SET", k, Some(v), ttl))
    /\ UNCHANGED <<replication_offset, handler, link, replica_offset, replica_applied, joined>>
    /\ UNCHANGED <<engine, memory_bytes, now, hist>>
    /\ UNCHANGED otherThanRepl

\* DELETE /api/delete (index.py delete_key): queued only if a key was deleted.
HttpDelete(k) ==
    /\ Len(master_applied) < MaxWrites
    /\ ~queue_lock_held
    /\ RL_delete_result(Store, k)
    /\ Install(RL_delete(Store, k))
    /\ command_queue' = queue_command(command_queue, command_id_counter, "DEL", k, None, None)
    /\ command_id_counter' = command_id_counter + 1
    /\ master_applied' = Append(master_applied, AOFCommand("DEL", k, None, None))
    /\ UNCHANGED <<replication_offset, handler, link, replica_offset, replica_applied, joined>>
    /\ UNCHANGED <<engine, memory_bytes, now, hist>>
    /\ UNCHANGED otherThanRepl

\* RESP SET (tcp_server.py _cmd_set): store.set only, nothing is queued.
RespSet(k, v, ttl) ==
    /\ Len(master_applied) < MaxWrites
    /\ Install(RL_set(Store, memory_bytes, k, v, ttl, now))
    /\ master_applied' = Append(master_applied, AOFCommand("SET", k, Some(v), ttl))
    /\ UNCHANGED <<command_queue, command_id_counter, replication_offset, handler,
                   link, replica_offset, replica_applied, joined>>
    /\ UNCHANGED <<engine, memory_bytes, now, hist>>
    /\ UNCHANGED otherThanRepl

\* handle_replica_connection after its sleep: with a non-empty queue it
\* enters the for loop over command_queue.
HandlerWake(r) ==
    /\ handler[r].state = "idle"
    /\ command_queue # <<>>
    /\ handler' = [handler EXCEPT ![r] = [state |-> "sending", it |-> 0]]
    /\ UNCHANGED <<command_queue, command_id_counter, replication_offset, link,
                   replica_offset, replica_applied, master_applied, joined>>
    /\ UNCHANGED <<storeVars, otherThanRepl>>

\* One pass of the for loop: the next command is written and drained.
HandlerSend(r) ==
    /\ handler[r].state = "sending"
    /\ handler[r].it < Len(command_queue)
    /\ link' = [link EXCEPT ![r] = Append(@, command_queue[handler[r].it + 1])]
    /\ handler' = [handler EXCEPT ![r].it = @ + 1]
    /\ replication_offset' = replication_offset + 1
    /\ UNCHANGED <<command_queue, command_id_counter, replica_offset, replica_applied,
                   master_applied, joined>>
    /\ UNCHANGED <<storeVars, otherThanRepl>>

\* The for loop has run off the end of the list: command_queue.clear().
HandlerClear(r) ==
    /\ handler[r].state = "sending"
    /\ handler[r].it >= Len(command_queue)
    /\ command_queue' = <<>>
    /\ handler' = [handler EXCEPT ![r] = [state |-> "idle", it |-> 0]]
    /\ UNCHANGED <<command_id_counter, replication_offset, link, replica_offset,
                   replica_applied, master_applied, joined>>
    /\ UNCHANGED <<storeVars, otherThanRepl>>

\* _apply_command: SET and DEL are applied, anything else is only logged.
apply_command(applied_so_far, cmd) ==
    IF cmd.command \in {"SET", "DEL"}
    THEN Append(applied_so_far, AOFCommand(cmd.command, cmd.key, cmd.value, cmd.ttl))
    ELSE applied_so_far

\* _receive_commands: one line is read and applied.
ReceiveCommand(r) ==
    /\ link[r] # <<>>
    /\ replica_applied' = [replica_applied EXCEPT ![r] = apply_command(@, Head(link[r]))]
    /\ replica_offset' = [replica_offset EXCEPT ![r] = @ + 1]
    /\ link' = [link EXCEPT ![r] = Tail(@)]
    /\ UNCHANGED <<command_queue, command_id_counter, replication_offset, handler,
                   master_applied, joined>>
    /\ UNCHANGED <<storeVars, otherThanRepl>>

NextRepl ==
    \/ \E r \in Replicas : ReplicaConnect(r)
    \/ \E k \in LogKeys, v \in Values, ttl \in {None, Some(1)} : HttpSet(k, v, ttl)
    \/ \E k \in LogKeys : HttpDelete(k)
    \/ \E k \in LogKeys, v \in Values, ttl \in {None, Some(1)} : RespSet(k, v, ttl)
    \/ \E r \in Replicas : HandlerWake(r)
    \/ \E r \in Replicas : HandlerSend(r)
    \/ \E r \in Replicas : HandlerClear(r)
    \/ \E r \in Replicas : ReceiveCommand(r)

InitRepl ==
    /\ WalStoreInit
    /\ WalInit(FALSE, "everysec")
    /\ ReplInit
    /\ PsyncInit
    /\ LockInit
    /\ KvInit
    /\ ExpInit
    /\ FlushInit
    /\ FullsyncInit
    /\ RespInit
    /\ ShutInit
    /\ SnapInit
    /\ IoInit
    /\ ModeInit

SpecRepl == InitRepl /\ [][NextRepl]_vars

---------------------------------------------------------------------------
\* Replication with PSYNC (api/replication_psync.py): the master keeps a
\* backlog of records tagged with their byte offset; a replica asks to resume
\* from its last_offset and is answered with a snapshot or with records.

\* len(json.dumps(record)): a SET record is longer than a DEL record, and
\* the record of a SET of a large value is longer than the whole backlog.
record_len(c) ==
    IF c = "SET_LARGE" THEN MaxBacklogSize + 1 ELSE IF c = "SET" THEN 2 ELSE 1

Master == [offset |-> psync_replication_offset, backlog |-> command_backlog,
           size |-> backlog_size_bytes]

\* A record_command without the trimming loop.
trim_nothing(M) == M

\* The trimming loop of record_command: oldest records go while over the cap.
RECURSIVE trim_backlog(_)
trim_backlog(M) ==
    IF M.size > MaxBacklogSize /\ M.backlog # <<>>
    THEN trim_backlog([M EXCEPT !.backlog = Tail(@), !.size = @ - Head(M.backlog).len])
    ELSE M

\* A record_command that tags the record with the offset after the append.
record_command_tag_after(M, c, k) ==
    trim_backlog([offset  |-> M.offset + record_len(c),
                  backlog |-> Append(M.backlog,
                                     [cmd |-> c, key |-> k,
                                      offset |-> M.offset + record_len(c),
                                      len |-> record_len(c)]),
                  size    |-> M.size + record_len(c)])

record_command(M, c, k) ==
    trim_backlog([offset  |-> M.offset + record_len(c),
                  backlog |-> Append(M.backlog,
                                     [cmd |-> c, key |-> k, offset |-> M.offset,
                                      len |-> record_len(c)]),
                  size    |-> M.size + record_len(c)])

\* handle_sync_request: the answer to a request to resume from requested_offset.
sync_kind(M, requested_offset) ==
    IF requested_offset = 0 - 1 THEN "FULLSYNC"
    ELSE IF requested_offset >= M.offset - M.size THEN "CONTINUE"
    ELSE "FULLSYNC"

\* The loop of _handle_psync over the backlog: a record is sent when the
\* bytes of the records before it reach skip_bytes.
RECURSIVE psync_records(_, _, _)
psync_records(backlog, bytes_sent, skip_bytes) ==
    IF backlog = <<>> THEN <<>>
    ELSE (IF bytes_sent >= skip_bytes THEN <<Head(backlog)>> ELSE <<>>) \o
         psync_records(Tail(backlog), bytes_sent + Head(backlog).len, skip_bytes)

handle_psync(M, requested_offset) ==
    psync_records(M.backlog, 0, requested_offset - (M.offset - M.size))

\* _handle_fullsync: the snapshot of the master's state, which holds the
\* effect of every record so far.
handle_fullsync(M) == <<[cmd |-> "SNAPSHOT", key |-> 0, offset |-> M.offset, len |-> 0]>>

\* A mutating command on the master: record_command.
RecordCommand(c, k) ==
    /\ Len(psync_history) < MaxRecords
    /\ LET M == record_command(Master, c, k)
       IN  /\ psync_replication_offset' = M.offset
           /\ command_backlog' = M.backlog
           /\ backlog_size_bytes' = M.size
    /\ psync_history' = Append(psync_history,
                               [cmd |-> c, key |-> k, offset |-> psync_replication_offset,
                                len |-> record_len(c)])
    /\ UNCHANGED <<psync_replication_id, replica_offsets, replica_replication_id,
                   last_offset, link_up, stream, psync_applied, last_sync, replica_data>>
    /\ UNCHANGED otherThanPsync

\* connect_and_sync sends PSYNC with the replica's id and last_offset, and
\* the master answers through handle_sync_request.
ConnectAndSync ==
    /\ ~link_up
    /\ last_sync.connections < MaxConnections
    /\ link_up' = TRUE
    /\ stream' = IF sync_kind(Master, last_offset) = "FULLSYNC"
                 THEN handle_fullsync(Master)
                 ELSE handle_psync(Master, last_offset)
    /\ replica_offsets' = Some(psync_replication_offset)
    /\ last_sync' = [kind |-> sync_kind(Master, last_offset),
                     known_repl_id |-> replica_replication_id,
                     known_offset |-> last_offset,
                     master_id |-> psync_replication_id,
                     backlog_start |-> psync_replication_offset - backlog_size_bytes,
                     connections |-> last_sync.connections + 1]
    /\ UNCHANGED <<psync_replication_id, psync_replication_offset, command_backlog,
                   backlog_size_bytes, replica_replication_id, last_offset,
                   psync_applied, psync_history, replica_data>>
    /\ UNCHANGED otherThanPsync

\* The offsets of the records the snapshot taken at offset upto holds.
RECURSIVE OffsetsBelow(_, _)
OffsetsBelow(h, upto) ==
    IF h = <<>> THEN <<>>
    ELSE (IF Head(h).offset + Head(h).len <= upto THEN <<Head(h).offset>> ELSE <<>>) \o
         OffsetsBelow(Tail(h), upto)

\* snapshot_callback(): the master's keys and values once every record
\* below the offset upto has taken effect.  The value of a key is the offset
\* of the SET that wrote it.
RECURSIVE snapshot(_, _)
snapshot(h, upto) ==
    IF h = <<>> THEN <<>>
    ELSE LET r == h[Len(h)]
             before == snapshot(SubSeq(h, 1, Len(h) - 1), upto)
         IN  IF r.offset + r.len > upto THEN before
             ELSE IF r.cmd = "DEL" THEN Pop(before, r.key)
             ELSE Put(before, r.key, r.offset)

\* The callback on a streamed record: SET stores, DEL removes.
apply_record(D, r) == IF r.cmd = "DEL" THEN Pop(D, r.key) ELSE Put(D, r.key, r.offset)

\* _handle_fullsync_response: callback("SET", key, ...) for every key of the
\* snapshot, on top of what the replica holds.
apply_snapshot(D, snap) ==
    [k \in DOMAIN D \cup DOMAIN snap |-> IF k \in DOMAIN snap THEN snap[k] ELSE D[k]]

\* The replica reads what the master sent.  The snapshot is applied key by
\* key (_handle_fullsync_response); a record is applied and last_offset set
\* to the offset tag of the record (_stream_commands).
ReplicaRead ==
    /\ link_up
    /\ stream # <<>>
    /\ stream' = Tail(stream)
    /\ IF Head(stream).cmd = "SNAPSHOT"
       THEN /\ psync_applied' = psync_applied \o OffsetsBelow(psync_history, Head(stream).offset)
            /\ replica_data' = apply_snapshot(replica_data,
                                              snapshot(psync_history, Head(stream).offset))
            /\ UNCHANGED last_offset
       ELSE /\ psync_applied' = Append(psync_applied, Head(stream).offset)
            /\ replica_data' = apply_record(replica_data, Head(stream))
            /\ last_offset' = Head(stream).offset
    /\ UNCHANGED <<psync_replication_id, psync_replication_offset, command_backlog,
                   backlog_size_bytes, replica_offsets, replica_replication_id,
                   link_up, psync_history, last_sync>>
    /\ UNCHANGED otherThanPsync

\* The connection ends: what was in flight is lost, readline meets the end.
Disconnect ==
    /\ link_up
    /\ link_up' = FALSE
    /\ stream' = <<>>
    /\ UNCHANGED <<psync_replication_id, psync_replication_offset, command_backlog,
                   backlog_size_bytes, replica_offsets, replica_replication_id,
                   last_offset, psync_applied, psync_history, last_sync, replica_data>>
    /\ UNCHANGED otherThanPsync

NextPsync ==
    \/ \E c \in {"SET", "DEL", "SET_LARGE"}, k \in Keys : RecordCommand(c, k)
    \/ ConnectAndSync
    \/ ReplicaRead
    \/ Disconnect

InitPsync ==
    /\ WalStoreInit
    /\ WalInit(FALSE, "everysec")
    /\ ReplInit
    /\ PsyncInit
    /\ LockInit
    /\ KvInit
    /\ ExpInit
    /\ FlushInit
    /\ FullsyncInit
    /\ RespInit
    /\ ShutInit
    /\ SnapInit
    /\ IoInit
    /\ ModeInit

SpecPsync == InitPsync /\ [][NextPsync]_vars

---------------------------------------------------------------------------
\* Locking.  Both engines take the shard lock and, inside it, the heap lock
\* when a key is stored with a TTL; their expiration workers take the heap
\* lock and, inside it, the shard lock of each entry they pop.  The stats
\* lock is innermost everywhere and left out.

\* `with lock:` reaches the lock: the thread asks for it.
request(t, l, pc) ==
    /\ thread_want' = [thread_want EXCEPT ![t] = Some(l)]
    /\ thread_pc' = [thread_pc EXCEPT ![t] = pc]
    /\ UNCHANGED <<lock_owner, lock_count, thread_held>>

\* Leaving the `with` block of the innermost lock held.
release(t, pc) ==
    LET l == thread_held[t][Len(thread_held[t])]
    IN  /\ lock_count' = [lock_count EXCEPT ![l] = @ - 1]
        /\ lock_owner' = [lock_owner EXCEPT ![l] = IF lock_count[l] = 1 THEN "none" ELSE @]
        /\ thread_held' = [thread_held EXCEPT ![t] = SubSeq(@, 1, Len(@) - 1)]
        /\ thread_pc' = [thread_pc EXCEPT ![t] = pc]
        /\ UNCHANGED thread_want

\* RLock.acquire: granted when the lock is free or owned by the caller.
AcquireLock(t) ==
    /\ thread_want[t] # None
    /\ LET l == thread_want[t][1]
       IN  /\ lock_owner[l] \in {"none", t}
           /\ lock_owner' = [lock_owner EXCEPT ![l] = t]
           /\ lock_count' = [lock_count EXCEPT ![l] = @ + 1]
           /\ thread_held' = [thread_held EXCEPT ![t] = Append(@, l)]
           /\ thread_want' = [thread_want EXCEPT ![t] = None]
    /\ UNCHANGED <<thread_pc, heap_shards>>
    /\ UNCHANGED otherThanLocks

\* set(key, value, ttl) enters `with lock:` of the key's shard.
SetShardLock(t, k) ==
    /\ thread_pc[t] = "idle"
    /\ request(t, shard_lock(get_shard(k)), "set_shard")
    /\ UNCHANGED heap_shards
    /\ UNCHANGED otherThanLocks

\* Inside the shard lock, a TTL was given: `with self._heap_lock:`.
SetHeapLock(t) ==
    /\ thread_pc[t] = "set_shard"
    /\ thread_want[t] = None
    /\ Len(heap_shards) < MaxPending
    /\ request(t, heap_lock, "set_heap")
    /\ UNCHANGED heap_shards
    /\ UNCHANGED otherThanLocks

\* heappush under the heap lock, then the heap lock is left.
SetPush(t) ==
    /\ thread_pc[t] = "set_heap"
    /\ thread_want[t] = None
    /\ heap_shards' = Append(heap_shards, thread_held[t][1][2])
    /\ release(t, "set_done")
    /\ UNCHANGED otherThanLocks

\* The shard lock is left: with a TTL after the push, without one at once.
SetReturn(t) ==
    /\ thread_pc[t] \in {"set_shard", "set_done"}
    /\ thread_want[t] = None
    /\ release(t, "idle")
    /\ UNCHANGED heap_shards
    /\ UNCHANGED otherThanLocks

\* _cleanup_expired / _expiration_loop enter `with self._heap_lock:`.
CleanupHeapLock ==
    /\ thread_pc["ttl_daemon"] = "idle"
    /\ request("ttl_daemon", heap_lock, "cleanup_heap")
    /\ UNCHANGED heap_shards
    /\ UNCHANGED otherThanLocks

\* heappop of a due entry, then `with self._locks[shard_id]:`.
CleanupShardLock ==
    /\ thread_pc["ttl_daemon"] = "cleanup_heap"
    /\ thread_want["ttl_daemon"] = None
    /\ heap_shards # <<>>
    /\ heap_shards' = Tail(heap_shards)
    /\ request("ttl_daemon", shard_lock(Head(heap_shards)), "cleanup_shard")
    /\ UNCHANGED otherThanLocks

\* The entry is verified and removed, the shard lock left.
CleanupVerify ==
    /\ thread_pc["ttl_daemon"] = "cleanup_shard"
    /\ thread_want["ttl_daemon"] = None
    /\ release("ttl_daemon", "cleanup_heap")
    /\ UNCHANGED heap_shards
    /\ UNCHANGED otherThanLocks

\* The heap is empty or its top not yet due: the heap lock is left.
CleanupReturn ==
    /\ thread_pc["ttl_daemon"] = "cleanup_heap"
    /\ thread_want["ttl_daemon"] = None
    /\ release("ttl_daemon", "idle")
    /\ UNCHANGED heap_shards
    /\ UNCHANGED otherThanLocks

NextLock ==
    \/ \E t \in Threads : AcquireLock(t)
    \/ \E t \in Clients, k \in LockKeys : SetShardLock(t, k)
    \/ \E t \in Clients : SetHeapLock(t)
    \/ \E t \in Clients : SetPush(t)
    \/ \E t \in Clients : SetReturn(t)
    \/ CleanupHeapLock
    \/ CleanupShardLock
    \/ CleanupVerify
    \/ CleanupReturn

InitLock ==
    /\ WalStoreInit
    /\ WalInit(FALSE, "everysec")
    /\ ReplInit
    /\ PsyncInit
    /\ LockInit
    /\ KvInit
    /\ ExpInit
    /\ FlushInit
    /\ FullsyncInit
    /\ RespInit
    /\ ShutInit
    /\ SnapInit
    /\ IoInit
    /\ ModeInit

SpecLock == InitLock /\ [][NextLock]_vars

---------------------------------------------------------------------------
\* The first store of the repository (redislite.py at the top of src): one
\* dictionary, one lock, deadlines computed from time.time().

KV_set(D, E, k, v, ttl, wall) ==
    [data   |-> Put(D, k, v),
     expiry |-> IF ttl # None THEN Put(E, k, wall + ttl[1] * TicksPerSec)
                ELSE IF k \in DOMAIN E THEN Pop(E, k) ELSE E]

KV_expired(D, E, k, wall) ==
    k \in DOMAIN D /\ k \in DOMAIN E /\ wall >= E[k]

KV_get_result(D, E, k, wall) ==
    IF k \notin DOMAIN D \/ KV_expired(D, E, k, wall) THEN None ELSE Some(D[k])

KV_exists_result(D, E, k, wall) ==
    k \in DOMAIN D /\ ~KV_expired(D, E, k, wall)

\* get and exists delete a key they find expired.
KV_lazy(D, E, k, wall) ==
    IF KV_expired(D, E, k, wall)
    THEN [data |-> Pop(D, k), expiry |-> Pop(E, k)]
    ELSE [data |-> D, expiry |-> E]

KV_delete(D, E, k) ==
    IF k \in DOMAIN D
    THEN [data |-> Pop(D, k), expiry |-> IF k \in DOMAIN E THEN Pop(E, k) ELSE E]
    ELSE [data |-> D, expiry |-> E]

\* _remove_expired_keys: every key whose deadline is <= time.time() goes.
KV_remove_expired_keys(D, E, wall) ==
    LET expired_keys == {k \in DOMAIN E : E[k] <= wall}
    IN  [data   |-> [k \in DOMAIN D \ expired_keys |-> D[k]],
         expiry |-> [k \in DOMAIN E \ expired_keys |-> E[k]]]

KvInstall(R) ==
    /\ kv_data' = R.data
    /\ kv_expiry' = R.expiry

KvSet(k, v, ttl) ==
    /\ KvInstall(KV_set(kv_data, kv_expiry, k, v, ttl, wall_clock))
    /\ kv_hist' = [kv_hist EXCEPT ![k] =
                      [present |-> TRUE, v |-> v,
                       dl |-> IF ttl = None THEN None
                              ELSE Some(mono_clock + ttl[1] * TicksPerSec),
                       jumped |-> FALSE]]
    /\ UNCHANGED <<wall_clock, mono_clock>>
    /\ UNCHANGED otherThanKv

KvGet(k) ==
    /\ KvInstall(KV_lazy(kv_data, kv_expiry, k, wall_clock))
    /\ UNCHANGED <<wall_clock, mono_clock, kv_hist>>
    /\ UNCHANGED otherThanKv

KvExists(k) ==
    /\ KvInstall(KV_lazy(kv_data, kv_expiry, k, wall_clock))
    /\ UNCHANGED <<wall_clock, mono_clock, kv_hist>>
    /\ UNCHANGED otherThanKv

KvDelete(k) ==
    /\ KvInstall(KV_delete(kv_data, kv_expiry, k))
    /\ kv_hist' = [kv_hist EXCEPT ![k].present = FALSE, ![k].dl = None]
    /\ UNCHANGED <<wall_clock, mono_clock>>
    /\ UNCHANGED otherThanKv

\* One round of _expiration_loop.
KvSweep ==
    /\ KvInstall(KV_remove_expired_keys(kv_data, kv_expiry, wall_clock))
    /\ UNCHANGED <<wall_clock, mono_clock, kv_hist>>
    /\ UNCHANGED otherThanKv

\* Time passes: both clocks advance together.
ClockTick ==
    /\ mono_clock < MaxTime
    /\ wall_clock < MaxWall
    /\ mono_clock' = mono_clock + 1
    /\ wall_clock' = wall_clock + 1
    /\ UNCHANGED <<kv_data, kv_expiry, kv_hist>>
    /\ UNCHANGED otherThanKv

\* The wall clock is set (NTP step, operator): time.time() reads w at once.
WallJump(w) ==
    /\ w # wall_clock
    /\ wall_clock' = w
    /\ kv_hist' = [k \in Keys |-> [kv_hist[k] EXCEPT !.jumped = kv_hist[k].present]]
    /\ UNCHANGED <<kv_data, kv_expiry, mono_clock>>
    /\ UNCHANGED otherThanKv

NextClock ==
    \/ \E k \in Keys, v \in Values, ttl \in OptTTL : KvSet(k, v, ttl)
    \/ \E k \in Keys : KvGet(k)
    \/ \E k \in Keys : KvExists(k)
    \/ \E k \in Keys : KvDelete(k)
    \/ KvSweep
    \/ ClockTick
    \/ \E w \in 0 .. MaxWall : WallJump(w)

InitClock ==
    /\ WalStoreInit
    /\ WalInit(FALSE, "everysec")
    /\ ReplInit
    /\ PsyncInit
    /\ LockInit
    /\ KvInit
    /\ ExpInit
    /\ FlushInit
    /\ FullsyncInit
    /\ RespInit
    /\ ShutInit
    /\ SnapInit
    /\ IoInit
    /\ ModeInit

SpecClock == InitClock /\ [][NextClock]_vars

---------------------------------------------------------------------------
\* EXPIRE as the server runs it on RedisLite (_cmd_expire, expire_key): three
\* calls of the store, exists, get and set, each taking the shard lock for
\* itself, so that commands of other clients run between them.

\* The handler returns: its locals are gone.
ExpireReturn ==
    /\ exp_pc' = "idle"
    /\ exp_iface' = "resp"
    /\ exp_key' = 1
    /\ exp_ttl' = 1
    /\ exp_value' = NoValue

\* store.exists(key); a key that is not there ends the handler.
ExpireExists(iface, k, ttl_sec) ==
    /\ exp_pc = "idle"
    /\ Install(RL_exists(Store, k, now))
    /\ IF RL_exists_result(Store, k, now)
       THEN /\ exp_pc' = "checked"
            /\ exp_iface' = iface
            /\ exp_key' = k
            /\ exp_ttl' = ttl_sec
            /\ exp_value' = NoValue
       ELSE ExpireReturn
    /\ UNCHANGED <<engine, memory_bytes, now, hist>>
    /\ UNCHANGED otherThanExpire

\* value = store.get(key); _cmd_expire ends on None, expire_key goes on.
ExpireGet ==
    /\ exp_pc = "checked"
    /\ Install(RL_get(Store, exp_key, now))
    /\ IF RL_get_result(Store, exp_key, now) = None /\ exp_iface = "resp"
       THEN ExpireReturn
       ELSE /\ exp_pc' = "read"
            /\ exp_value' = IF RL_get_result(Store, exp_key, now) = None THEN NoValue
                            ELSE RL_get_result(Store, exp_key, now)[1]
            /\ UNCHANGED <<exp_iface, exp_key, exp_ttl>>
    /\ UNCHANGED <<engine, memory_bytes, now, hist>>
    /\ UNCHANGED otherThanExpire

\* store.set(key, value, ttl) with the value read.
ExpireSet ==
    /\ exp_pc = "read"
    /\ Len(expiry_heap) < MaxHeap
    /\ Install(RL_set(Store, memory_bytes, exp_key, exp_value, Some(exp_ttl), now))
    /\ hist' = H_put(H_evict(hist, Victims(Store, memory_bytes, exp_key, exp_value,
                                           Some(exp_ttl), now), exp_key),
                     exp_key, exp_value, Some(exp_ttl), now)
    /\ ExpireReturn
    /\ UNCHANGED <<engine, memory_bytes, now>>
    /\ UNCHANGED otherThanExpire

NextExpire ==
    \/ \E iface \in {"resp", "http"}, k \in Keys, ttl_sec \in TTLSecs :
            ExpireExists(iface, k, ttl_sec)
    \/ ExpireGet
    \/ ExpireSet
    \/ \E k \in Keys, v \in Values, ttl \in OptTTL : exp_pc = "idle" /\ Set(k, v, ttl)
    \/ \E k \in Keys : exp_pc = "idle" /\ Delete(k)
    \/ Sweep
    \/ Tick

InitExpire ==
    /\ WalStoreInit
    /\ WalInit(FALSE, "everysec")
    /\ ReplInit
    /\ PsyncInit
    /\ LockInit
    /\ KvInit
    /\ ExpInit
    /\ FlushInit
    /\ FullsyncInit
    /\ RespInit
    /\ ShutInit
    /\ SnapInit
    /\ IoInit
    /\ ModeInit

SpecExpire == InitExpire /\ [][NextExpire]_vars

---------------------------------------------------------------------------
\* flush / flushdb beside the other threads: the shard maps are cleared
\* shard by shard, each under its lock, and the heap afterwards under the
\* heap lock; a SET of another thread runs between the two.

\* The loop over the shards.
FlushShards ==
    /\ flush_pc = "idle"
    /\ Install([Store EXCEPT !.data = [s \in Shards |-> EmptyDict],
                             !.expiry = [s \in Shards |-> EmptyDict],
                             !.access = [s \in Shards |-> <<>>]])
    /\ hist' = [k \in Keys |-> Absent]
    /\ flush_pc' = "heap"
    /\ UNCHANGED <<engine, memory_bytes, now>>
    /\ UNCHANGED otherThanFlush

\* _expiry_heap.clear() under the heap lock.
FlushHeap ==
    /\ flush_pc = "heap"
    /\ Install([Store EXCEPT !.heap = <<>>])
    /\ flush_pc' = "idle"
    /\ UNCHANGED <<engine, memory_bytes, now, hist>>
    /\ UNCHANGED otherThanFlush

NextFlush ==
    \/ FlushShards
    \/ FlushHeap
    \/ \E k \in Keys, v \in Values, ttl \in OptTTL : Set(k, v, ttl)
    \/ \E k \in Keys : Get(k)
    \/ Sweep
    \/ Tick

SpecFlush == Init /\ [][NextFlush]_vars

---------------------------------------------------------------------------
\* The server in master or replica mode: the commands of its clients
\* (handle_command of tcp_server.py, the routes of index.py) and, on a
\* replica, the commands read from the master (_apply_command).

MutatingCommands == {"SET", "DEL", "EXPIRE", "FLUSHDB"}

\* The store after a well-formed command of a client.  No handler reads
\* config.replica_mode.
mutating_command(S, mem, c, k, v, ttl_sec, t) ==
    IF c = "SET" THEN RL_set(S, mem, k, v, None, t)
    ELSE IF c = "DEL" THEN RL_delete(S, k)
    ELSE IF c = "EXPIRE" THEN cmd_expire(S, mem, k, ttl_sec, t)
    ELSE RL_flushdb(S)

\* Its reply: "+OK" or an integer, never an error.
mutating_command_reply(c) == "ok"

ClientCommand(c, k, v, ttl_sec) ==
    /\ c = "EXPIRE" => Len(expiry_heap) < MaxHeap
    /\ Install(mutating_command(Store, memory_bytes, c, k, v, ttl_sec, now))
    /\ last_reply' = [origin |-> "client", reply |-> mutating_command_reply(c)]
    /\ UNCHANGED <<engine, memory_bytes, now, hist, replica_mode>>
    /\ UNCHANGED otherThanMode

\* ReplicationReplica._apply_command: a SET or DEL read from the master.
StreamCommand(c, k, v) ==
    /\ replica_mode = "replica"
    /\ Install(IF c = "SET" THEN RL_set(Store, memory_bytes, k, v, None, now)
               ELSE RL_delete(Store, k))
    /\ last_reply' = [origin |-> "stream", reply |-> "none"]
    /\ UNCHANGED <<engine, memory_bytes, now, hist, replica_mode>>
    /\ UNCHANGED otherThanMode

NextMode ==
    \/ \E c \in MutatingCommands, k \in Keys, v \in Values, ttl_sec \in TTLSecs :
            ClientCommand(c, k, v, ttl_sec)
    \/ \E c \in {"SET", "DEL"}, k \in Keys, v \in Values : StreamCommand(c, k, v)
    \/ Tick

InitMode ==
    /\ WalStoreInit
    /\ WalInit(FALSE, "everysec")
    /\ ReplInit
    /\ PsyncInit
    /\ LockInit
    /\ KvInit
    /\ ExpInit
    /\ FlushInit
    /\ FullsyncInit
    /\ RespInit
    /\ ShutInit
    /\ SnapInit
    /\ IoInit
    /\ replica_mode \in {"master", "replica"}
    /\ last_reply = NoReply

SpecMode == InitMode /\ [][NextMode]_vars

---------------------------------------------------------------------------
\* Eviction with keys in several shards: SETs without ttl, GETs, INFO and
\* the clock.  Keys 1 and 17 share shard 1, keys 2 and 18 share shard 2.

EvictKeys == {1, 2, 17, 18}

\* set(key, value) of either engine, with the byte count HashMapEngine
\* recomputes at the end of every set.
ShardSet(k, v) ==
    /\ LET S1 == do_set(Store, memory_bytes, k, v, None, now)
       IN  /\ Install(S1)
           /\ memory_bytes' = IF IsHM THEN HM_memory_usage(S1) ELSE memory_bytes
    /\ UNCHANGED <<engine, now, hist>>
    /\ UNCHANGED otherThanStore

ShardGet(k) ==
    /\ Install(do_get(Store, k, now))
    /\ UNCHANGED <<engine, memory_bytes, now, hist>>
    /\ UNCHANGED otherThanStore

NextEvict ==
    \/ \E k \in EvictKeys, v \in Values : ShardSet(k, v)
    \/ \E k \in EvictKeys : ShardGet(k)
    \/ Info
    \/ Tick

SpecEvict == Init /\ [][NextEvict]_vars

---------------------------------------------------------------------------
\* Properties of the store.

\* C1: once SET(k, v) has returned, GET(k) answers v until a later DEL,
\* overwriting SET, FLUSHDB, expiration or eviction of k; GET of a key never
\* set, or deleted, answers no value.
C1_RoundTrip ==
    \A k \in Keys :
        /\ hist[k].st = "absent" => get_result(Store, k, now) = None
        /\ H_live(hist, k, now) => get_result(Store, k, now) = Some(hist[k].v)

\* The same, for the keys the SET that stored them did not itself evict.
RoundTripUnlessSelfEvicted ==
    \A k \in Keys :
        /\ hist[k].st = "absent" => get_result(Store, k, now) = None
        /\ hist[k].st = "set" /\ H_live(hist, k, now) =>
               get_result(Store, k, now) = Some(hist[k].v)

\* The answer TTL gives for a missing key: None (HashMapEngine), -2 (RedisLite).
ttl_missing == IF IsHM THEN None ELSE Some(0 - 2)

\* C9: on a key whose deadline is <= now, each of GET, EXISTS and TTL removes
\* the entry and answers as for a missing key.
C9_LazyExpiry ==
    \A k \in Keys :
        Due(Store, k, now) =>
            /\ get_result(Store, k, now) = None
            /\ k \notin KeysOf(do_get(Store, k, now))
            /\ exists_result(Store, k, now) = FALSE
            /\ k \notin KeysOf(do_exists(Store, k, now))
            /\ ttl_result(Store, k, now) = ttl_missing
            /\ k \notin KeysOf(do_ttl(Store, k, now))

\* The part of it that GET and EXISTS meet.
LazyExpiryOfGetAndExists ==
    \A k \in Keys :
        Due(Store, k, now) =>
            /\ get_result(Store, k, now) = None
            /\ k \notin KeysOf(do_get(Store, k, now))
            /\ exists_result(Store, k, now) = FALSE
            /\ k \notin KeysOf(do_exists(Store, k, now))

\* The answer of TTL, in ticks.
ttl_ticks(S, k, t) ==
    IF IsHM THEN HM_ttl_result(S, k, t)[1] ELSE RL_ttl_result(S, k, t) * TicksPerSec

\* EXISTS is true and TTL is within one second of the time left to deadline d.
AliveUntil(k, d) ==
    /\ exists_result(Store, k, now) = TRUE
    /\ ttl_result(Store, k, now) # ttl_missing
    /\ ttl_ticks(Store, k, now) - (d - now) <= TicksPerSec
    /\ (d - now) - ttl_ticks(Store, k, now) <= TicksPerSec

\* C10 as stated: a key SET with ttl T at t0 and not deleted, overwritten,
\* flushed or evicted since has EXISTS true and TTL within one second of
\* T - (t - t0) at every t with t - t0 < T.
C10_NoEarlyExpiry_AsStated ==
    \A k \in Keys :
        hist[k].st = "set" /\ hist[k].sdl # None /\ now < hist[k].sdl[1] =>
            AliveUntil(k, hist[k].sdl[1])

\* C10: the same for a key that has also been given no new deadline by EXPIRE.
C10_NoEarlyExpiry ==
    \A k \in Keys :
        hist[k].st = "set" /\ hist[k].sdl # None /\ ~hist[k].expd
                /\ now < hist[k].sdl[1] =>
            AliveUntil(k, hist[k].sdl[1])

\* A key SET with a ttl, untouched since, one tick before its deadline.
C10_Witness ==
    \E k \in Keys :
        /\ hist[k].st = "set" /\ hist[k].sdl # None /\ ~hist[k].expd
        /\ now > 0 /\ now = hist[k].sdl[1] - 1
        /\ exists_result(Store, k, now) = TRUE

\* The answer TTL gives for a key without deadline: -1.
ttl_no_deadline == IF IsHM THEN Some(0 - TicksPerSec) ELSE Some(0 - 1)

\* The keys that are present with a deadline not yet reached.
WithDeadline(S, t) ==
    {k \in KeysOf(S) : k \in DOMAIN S.expiry[get_shard(k)] /\ ~Due(S, k, t)}

\* In store S, from time t on, TTL(k) answers -1 and k reads as v.
ReadableForever(S, k, v, t) ==
    \A u \in t .. (MaxTime + MaxTime) :
        /\ ttl_result(S, k, u) = ttl_no_deadline
        /\ exists_result(S, k, u) = TRUE
        /\ get_result(S, k, u) = Some(v)

\* C12: after SET(k, v) without ttl on a key that had a deadline, TTL(k)
\* answers -1 and k stays readable, also past the old deadline.
C12_SetWithoutTtlClearsDeadline ==
    \A k \in WithDeadline(Store, now), v \in Values :
        ReadableForever(do_set(Store, memory_bytes, k, v, None, now), k, v, now)

\* The same, for the SETs that do not evict the key they store.
SetWithoutTtlClearsDeadlineUnlessSelfEvicted ==
    \A k \in WithDeadline(Store, now), v \in Values :
        k \notin Victims(Store, memory_bytes, k, v, None, now) =>
            ReadableForever(do_set(Store, memory_bytes, k, v, None, now), k, v, now)

\* A key with a deadline that a SET without ttl would store and not evict.
KeptKeyWithDeadline ==
    \E k \in WithDeadline(Store, now), v \in Values :
        k \notin Victims(Store, memory_bytes, k, v, None, now)

---------------------------------------------------------------------------
\* Properties of the write-ahead log.

\* The records a reader meets from offset pos up to the first one that fails
\* the length or CRC check.
RECURSIVE GoodRecords(_, _)
GoodRecords(f, pos) ==
    IF replay_read(f, pos).kind = "ok"
    THEN <<replay_read(f, pos).cmd[1]>> \o GoodRecords(f, replay_read(f, pos).pos)
    ELSE <<>>

IsPrefix(a, b) == Len(a) <= Len(b) /\ SubSeq(b, 1, Len(a)) = a

\* The records of the fsynced part of the file.
DurableRecords == GoodRecords(SubSeq(aof_file, 1, aof_synced), 0)

\* C2: under policy "always" every acknowledged mutating command has its
\* record written to the file and fsynced.
C2_AckedWriteIsDurable ==
    aof_fsync_policy = "always" /\ damage = None => IsPrefix(acked, DurableRecords)

\* The same of a server whose handlers do call log_command.
LoggedWriteIsDurable ==
    aof_fsync_policy = "always" /\ damage = None /\ wal_wired =>
        IsPrefix(acked, DurableRecords)

\* The offset at which the i-th record written to the file ends.
FrameEnd(i) == Len(wal_bytes(SubSeq(written, 1, i)))

\* How many records were written wholly before the first damaged cell.
IntactCount ==
    IF damage = None THEN Len(written)
    ELSE Cardinality({i \in 1 .. Len(written) : FrameEnd(i) <= damage[1]})

RECURSIVE ApplyAll(_, _)
ApplyAll(S, cmds) ==
    IF cmds = <<>> THEN S
    ELSE ApplyAll(apply_aof_command(S, 0, Head(cmds), now), Tail(cmds))

\* C3: replay of a file with a damaged tail applies exactly the records
\* before the first record that fails the length or CRC check, in file order,
\* and none after it; replay stops there and the server runs on that state.
\* The records written before the damage are all among them.
C3_ReplayStopsAtFirstBadRecord ==
    proc = "replaying" \/ (proc = "running" /\ restarts > 0) =>
        /\ IsPrefix(applied, GoodRecords(aof_file, 0))
        /\ replay_done => applied = GoodRecords(aof_file, 0)
        /\ replay_done => IsPrefix(SubSeq(written, 1, IntactCount), applied)
        /\ Store = ApplyAll(EmptyStore, applied)

\* Replay has stopped at a failed record in the middle of the file: one
\* record before it was applied, and a sound record lies after it.
C3_Witness ==
    /\ proc = "running" /\ restarts > 0
    /\ aof_corruption_skipped = 1
    /\ Len(written) = 3 /\ applied = SubSeq(written, 1, 1)
    /\ Len(aof_file) = FrameEnd(3)
    /\ replay_read(aof_file, FrameEnd(2)).kind = "ok"

\* The live keys and values of a store.
LiveContent(S, t) ==
    [k \in {x \in Keys : RL_get_result(S, x, t) # None} |-> RL_get_result(S, k, t)[1]]

\* C4: after a clean shutdown, recovery gives a store whose live keys and
\* values are those of the acknowledged commands applied in order to an
\* empty store.
C4_RecoveryEqualsWrites ==
    proc = "replaying" /\ replay_done /\ stop_kind = "clean" /\ damage = None =>
        LiveContent(Store, now) = LiveContent(ApplyAll(EmptyStore, acked), now)

\* The same of a server whose handlers do call log_command.
WiredRecoveryEqualsWrites ==
    proc = "replaying" /\ replay_done /\ stop_kind = "clean" /\ damage = None
            /\ wal_wired =>
        LiveContent(Store, now) = LiveContent(ApplyAll(EmptyStore, acked), now)

---------------------------------------------------------------------------
\* Properties of replication.

\* What the coroutine of replica r has still to send from the queue.
Pending(r) ==
    IF handler[r].state = "sending"
    THEN SubSeq(command_queue, handler[r].it + 1, Len(command_queue))
    ELSE command_queue

RECURSIVE Commands_of(_)
Commands_of(q) ==
    IF q = <<>> THEN <<>>
    ELSE apply_command(<<>>, Head(q)) \o Commands_of(Tail(q))

\* C5: a replica connected since before the first write applies every
\* mutating command of the master once and in the master's order: what it
\* has applied, followed by what is in flight to it and what is still queued
\* for it, is the sequence the master applied.
C5_ReplicaGetsEveryWrite ==
    \A r \in Replicas :
        joined[r] = Some(0) =>
            replica_applied[r] \o Commands_of(link[r]) \o Commands_of(Pending(r))
                = master_applied

\* The same, of the commands that came by HTTP.
ReplicaGetsHttpWrites ==
    \A r \in Replicas :
        joined[r] = Some(0) /\ Len(master_applied) = command_id_counter =>
            replica_applied[r] \o Commands_of(link[r]) \o Commands_of(Pending(r))
                = master_applied

\* The same, of the commands that came by HTTP, for one connected replica.
SingleReplicaGetsHttpWrites ==
    \A r \in Replicas :
        /\ joined[r] = Some(0)
        /\ \A o \in Replicas \ {r} : joined[o] = None
        /\ Len(master_applied) = command_id_counter
        => replica_applied[r] \o Commands_of(link[r]) \o Commands_of(Pending(r))
               = master_applied

---------------------------------------------------------------------------
\* Properties of PSYNC.

\* C6: the master answers a PSYNC request with FULLSYNC exactly when the
\* replica's known replication id differs from the master's or its known
\* offset lies before the start of the backlog; otherwise with +CONTINUE.
C6_FullsyncIffUnknownOrTooOld ==
    last_sync.kind # "none" =>
        (last_sync.kind = "FULLSYNC" <=>
            (\/ last_sync.known_repl_id # last_sync.master_id
             \/ last_sync.known_offset < last_sync.backlog_start))

\* The offset half of the decision alone.
FullsyncIffTooOld ==
    last_sync.kind # "none" =>
        (last_sync.kind = "FULLSYNC" <=> last_sync.known_offset < last_sync.backlog_start)

\* C7: a replica whose last_offset is O has applied exactly the master's
\* records that cover the bytes [0, O), each once and in order.
C7_OffsetCoversApplied ==
    psync_applied = OffsetsBelow(psync_history, last_offset)

\* No record is applied a second time.
NoRecordAppliedTwice ==
    \A i, j \in DOMAIN psync_applied : psync_applied[i] = psync_applied[j] => i = j

---------------------------------------------------------------------------
\* Properties of locking.

IsShardLock(l) == l[1] = "shard"

\* C8: every thread takes locks in the order shard lock, then heap lock: no
\* thread asks for a shard lock while it holds the heap lock.
C8_LockOrder ==
    \A t \in Threads :
        (thread_want[t] # None /\ IsShardLock(thread_want[t][1])) =>
            \A i \in DOMAIN thread_held[t] : thread_held[t][i] # heap_lock

\* The client commands alone keep the order.
ClientsKeepLockOrder ==
    \A t \in Clients :
        (thread_want[t] # None /\ IsShardLock(thread_want[t][1])) =>
            \A i \in DOMAIN thread_held[t] : thread_held[t][i] # heap_lock

\* No two threads wait for each other's lock.
NoLockCycle ==
    \A t, u \in Threads :
        ~ /\ t # u
          /\ thread_want[t] # None /\ lock_owner[thread_want[t][1]] = u
          /\ thread_want[u] # None /\ lock_owner[thread_want[u][1]] = t

---------------------------------------------------------------------------
\* Properties of the clocks.

\* What the monotonic clock says of k: set, not deleted, deadline not reached.
KvLive(k) ==
    kv_hist[k].present /\ (kv_hist[k].dl = None \/ mono_clock < kv_hist[k].dl[1])

\* C11: whatever the wall clock has done, GET and EXISTS answer as the
\* monotonic clock decides: a key is readable exactly while its deadline on
\* the monotonic clock has not been reached.
C11_WallClockJumpChangesNothing ==
    \A k \in Keys :
        /\ KV_exists_result(kv_data, kv_expiry, k, wall_clock) = KvLive(k)
        /\ KvLive(k) => KV_get_result(kv_data, kv_expiry, k, wall_clock) = Some(kv_hist[k].v)

\* The same of keys set after the last jump of the wall clock.
NoJumpNoChange ==
    \A k \in Keys :
        ~kv_hist[k].jumped =>
            /\ KV_exists_result(kv_data, kv_expiry, k, wall_clock) = KvLive(k)
            /\ KvLive(k) => KV_get_result(kv_data, kv_expiry, k, wall_clock) = Some(kv_hist[k].v)

\* A jump leaves the stored deadlines as they were.
JumpKeepsStoredDeadlines ==
    [][wall_clock' # wall_clock /\ mono_clock' = mono_clock => kv_expiry' = kv_expiry]_vars

---------------------------------------------------------------------------
\* Properties of EXPIRE.

\* C14: the step by which an EXPIRE takes effect changes no value: the key
\* keeps the value it has at that moment, also when the expiry of the key
\* came between the handler's calls, and a key that has been removed
\* meanwhile is not created again.
C14_ExpireKeepsValue ==
    [][exp_pc = "read" /\ exp_pc' = "idle" => data' = data]_vars

\* The same of an EXPIRE between whose calls nothing has changed the key and
\* whose set finds the memory below the limit.
UndisturbedExpireKeepsValue ==
    [][exp_pc = "read" /\ exp_pc' = "idle"
        /\ RL_get_result(Store, exp_key, now) = Some(exp_value)
        /\ ~RL_set_evicts(memory_bytes, exp_key, exp_value) => data' = data]_vars

---------------------------------------------------------------------------
\* Properties of eviction.

\* All keys of the store, whatever their shard.
AllKeys(S) == UNION {DOMAIN S.data[s] : s \in Shards}

\* The keys a SET(k, v) removes from the store.
Evicted(S, mem, k, v, t) == (AllKeys(S) \cup {k}) \ AllKeys(do_set(S, mem, k, v, None, t))

\* The store at the moment the SET evicts: HashMapEngine has stored the key
\* by then, RedisLite has not.
AtEviction(S, k, v, t) == IF IsHM THEN HM_insert(S, k, v, None, t) ELSE S

\* The least recently used keys of a shard's recency record: the first of
\* the OrderedDict of HashMapEngine, the keys of the smallest access time
\* in RedisLite.
LeastRecent(a) ==
    IF a = <<>> THEN {}
    ELSE IF IsHM THEN {a[1][1]}
    ELSE {a[i][1] : i \in {x \in DOMAIN a : \A y \in DOMAIN a : a[x][2] <= a[y][2]}}

\* C15: a SET removes at most one key by eviction, that key is of the
\* shard of the SET's key, and it is a least recently used key of that shard.
C15_EvictsLruOfOwnShard ==
    \A k \in EvictKeys, v \in Values :
        LET gone == Evicted(Store, memory_bytes, k, v, now)
            s == get_shard(k)
        IN  /\ Cardinality(gone) <= 1
            /\ \A x \in gone :
                   /\ get_shard(x) = s
                   /\ x \in LeastRecent(AtEviction(Store, k, v, now).access[s])

\* What the engines do: RedisLite evicts from the shard of the SET's key,
\* HashMapEngine from the first shard that has a recency entry.
EvictionShard(S, k) ==
    IF IsHM THEN CHOOSE x \in HM_evict_shards(S) : \A y \in HM_evict_shards(S) : x <= y
    ELSE get_shard(k)

EvictsLruOfEvictionShard ==
    \A k \in EvictKeys, v \in Values :
        LET gone == Evicted(Store, memory_bytes, k, v, now)
            S0 == AtEviction(Store, k, v, now)
        IN  /\ Cardinality(gone) <= 1
            /\ \A x \in gone :
                   /\ get_shard(x) = EvictionShard(S0, k)
                   /\ x \in LeastRecent(S0.access[EvictionShard(S0, k)])

\* A SET of a key of shard 2 is about to evict a key.
SetEvictsSomeKey ==
    \E v \in Values : Evicted(Store, memory_bytes, 2, v, now) # {}

\* The accounted size of the live entries, as each engine accounts it.
Accounted(S) ==
    IF IsHM THEN HM_memory_usage(S)
    ELSE update_memory_stats(S.data, {s \in Shards : DOMAIN S.data[s] # {}})

\* The largest accounted size of one entry.
OneEntry ==
    IF IsHM THEN CHOOSE x \in Values : \A y \in Values : y <= x
    ELSE CHOOSE x \in {calculate_key_memory(k, v) : k \in EvictKeys, v \in Values} :
             \A k \in EvictKeys, v \in Values : calculate_key_memory(k, v) <= x

\* C16: after every SET the accounted size of the live entries is at most
\* max_memory_bytes plus the size of one entry.
C16_MemoryWithinLimitPlusOne ==
    Accounted(Store) <= MaxMemoryBytes + OneEntry

\* A SET that finds the live entries within the limit leaves them within the
\* limit plus one entry.
SetWithinLimitStaysNear ==
    [][Accounted(Store) <= MaxMemoryBytes /\ data' # data
            => Accounted([Store EXCEPT !.data = data']) <= MaxMemoryBytes + OneEntry]_vars

---------------------------------------------------------------------------
\* Properties of the expiry heap.

\* The places of the heap that hold the entry e.
HeapPlaces(S, e) == {i \in DOMAIN S.heap : S.heap[i] = e}

\* C17: while no flush is half done, every key with a deadline d in its
\* shard's expiry map has exactly one heap entry (d, key, shard).
C17_OneHeapEntryPerDeadline ==
    flush_pc = "idle" =>
        \A k \in Keys :
            LET s == get_shard(k)
            IN  k \in DOMAIN expiry[s]
                    => Cardinality(HeapPlaces(Store, <<expiry[s][k], k, s>>)) = 1

\* Every key with a deadline has a heap entry for it, so that the worker
\* comes to it.
DeadlineHasHeapEntry ==
    flush_pc = "idle" =>
        \A k \in Keys :
            LET s == get_shard(k)
            IN  k \in DOMAIN expiry[s] => HeapPlaces(Store, <<expiry[s][k], k, s>>) # {}

---------------------------------------------------------------------------
\* Properties of the expiration worker.

\* The keys one wake-up of the worker removes.
Swept(S, t) == KeysOf(S) \ KeysOf(do_sweep(S, t))

\* C18: the worker removes a key only if the key has a deadline now and that
\* deadline has passed; every other key keeps its value and its deadline,
\* whatever stale entries the worker pops.
C18_WorkerRemovesOnlyDueKeys ==
    /\ \A k \in Swept(Store, now) : Due(Store, k, now)
    /\ \A k \in KeysOf(Store) \ Swept(Store, now) :
           LET s == get_shard(k)
               S1 == do_sweep(Store, now)
           IN  /\ S1.data[s][k] = data[s][k]
               /\ (k \in DOMAIN S1.expiry[s]) = (k \in DOMAIN expiry[s])
               /\ k \in DOMAIN expiry[s] => S1.expiry[s][k] = expiry[s][k]

\* The worker is about to pop a stale entry of a key that is still there,
\* with its TTL cleared or replaced by a later deadline.
C18_Witness ==
    \E i \in DOMAIN expiry_heap :
        LET e == expiry_heap[i]
        IN  /\ e[1] <= now
            /\ e[2] \in DOMAIN data[e[3]]
            /\ ~Due(Store, e[2], now)
            /\ e \notin {do_sweep(Store, now).heap[j] : j \in DOMAIN do_sweep(Store, now).heap}
            /\ e[2] \in KeysOf(do_sweep(Store, now))

---------------------------------------------------------------------------
\* Properties of the PSYNC backlog.

\* The bytes of a sequence of records.
RECURSIVE SumLen(_)
SumLen(rs) == IF rs = <<>> THEN 0 ELSE Head(rs).len + SumLen(Tail(rs))

BacklogInOrder ==
    /\ psync_replication_offset = SumLen(psync_history)
    /\ \A i \in 1 .. (Len(command_backlog) - 1) :
           /\ command_backlog[i].offset < command_backlog[i + 1].offset
           /\ command_backlog[i + 1].offset
                  = command_backlog[i].offset + command_backlog[i].len
    /\ command_backlog # <<>>
           => psync_replication_offset - backlog_size_bytes = command_backlog[1].offset

\* C19: replication_offset never decreases and is the number of bytes
\* appended so far; the records of the backlog are in increasing, contiguous
\* offset order; replication_offset - backlog_size_bytes is the offset tag
\* of the oldest record held.
C19_OffsetAndBacklogInStep ==
    /\ []BacklogInOrder
    /\ [][psync_replication_offset' >= psync_replication_offset]_vars

\* Records have been trimmed and at least two are held.
C19_Witness ==
    /\ Len(command_backlog) >= 2
    /\ Len(psync_history) > Len(command_backlog)

\* The last n records of the history.
LastRecords(h, n) == SubSeq(h, Len(h) - n + 1, Len(h))

\* C20: the bytes of the backlog never exceed its capacity, and the backlog
\* is a suffix of the history of appended records: the oldest go first.
C20_BacklogIsBoundedSuffix ==
    /\ backlog_size_bytes = SumLen(command_backlog)
    /\ backlog_size_bytes <= MaxBacklogSize
    /\ Len(command_backlog) <= Len(psync_history)
    /\ command_backlog = LastRecords(psync_history, Len(command_backlog))

\* A record longer than the capacity has emptied the backlog, or the
\* backlog is full after dropping its oldest records.
C20_Witness ==
    /\ psync_history # <<>>
    /\ \/ command_backlog = <<>>
       \/ /\ backlog_size_bytes = MaxBacklogSize
          /\ Len(psync_history) > Len(command_backlog)

---------------------------------------------------------------------------
\* log_command and flush_aof when the write of the WAL file can fail.

\* flush_aof when open, write or fsync raises IOError: the except branch
\* logs the error and returns, the buffer keeps its records.  The failure
\* modelled is the one that leaves the file as it was.
flush_aof_io(W, due, ok) == IF ok THEN flush_aof(W, due) ELSE W

\* log_command over a file whose write succeeds or fails.
log_command_io(W, cmd, due, ok) ==
    IF Len(W.buffer) + 1 > AofBufferLimit
    THEN flush_aof_io([W EXCEPT !.buffer = Append(@, cmd)], due, ok)
    ELSE [W EXCEPT !.buffer = Append(@, cmd)]

\* Whether log_command reaches the write of the file.
log_command_flushes(W) == Len(W.buffer) + 1 > AofBufferLimit

InitIO ==
    /\ WalStoreInit
    /\ \E policy \in {"always", "everysec", "no"} : WalInit(TRUE, policy)
    /\ ReplInit
    /\ PsyncInit
    /\ LockInit
    /\ KvInit
    /\ ExpInit
    /\ FlushInit
    /\ FullsyncInit
    /\ RespInit
    /\ ShutInit
    /\ SnapInit
    /\ IoInit
    /\ ModeInit

\* A mutating command whose handler calls log_command: the store is
\* changed, the command is logged, and the handler acknowledges when
\* log_command returns.  flush_aof catches IOError, so log_command returns
\* in both cases and no counter of _daemon_stats is touched.
LogCommand(cmd, due, ok) ==
    /\ proc = "running"
    /\ Len(acked) < MaxLog
    /\ Install(handle_command(Store, memory_bytes, cmd, now))
    /\ InstallWal(log_command_io(Wal, cmd, due, ok))
    /\ io_failed' = (log_command_flushes(Wal) /\ ~ok)
    /\ log_raised' = FALSE
    /\ acked' = IF log_raised' THEN acked ELSE Append(acked, cmd)
    /\ UNCHANGED error_count
    /\ UNCHANGED <<engine, memory_bytes, now, hist>>
    /\ UNCHANGED <<wal_wired, aof_fsync_policy, aof_corruption_skipped, proc,
                   replay_pos, replay_done, applied, damage, stop_kind, restarts>>
    /\ UNCHANGED otherThanIo

\* One wake-up of _persistence_loop whose flush succeeds or fails.
FlushAof(due, ok) ==
    /\ proc = "running"
    /\ aof_buffer # <<>>
    /\ InstallWal(flush_aof_io(Wal, due, ok))
    /\ UNCHANGED storeVars
    /\ UNCHANGED <<wal_wired, aof_fsync_policy, aof_corruption_skipped, proc,
                   replay_pos, replay_done, applied, acked, damage, stop_kind,
                   restarts>>
    /\ UNCHANGED ioVars
    /\ UNCHANGED otherThanIo

NextIO ==
    \/ \E cmd \in Commands, due \in BOOLEAN, ok \in BOOLEAN : LogCommand(cmd, due, ok)
    \/ \E due \in BOOLEAN, ok \in BOOLEAN : FlushAof(due, ok)

SpecIO == InitIO /\ [][NextIO]_vars

---------------------------------------------------------------------------
\* Snapshots: create_snapshot step by step, the rotation of the WAL after
\* it, crashes of the process, and recovery from dump.json and the WAL.

\* The keys and values of the store, as the caller of create_snapshot
\* collects them.
store_state(S) == [k \in KeysOf(S) |-> S.data[get_shard(k)][k]]

\* json.dump of the snapshot: the text in cells, one per brace, key or value.
RECURSIVE json_dump_pairs(_, _)
json_dump_pairs(keys, ks) ==
    IF ks = {} THEN <<>>
    ELSE LET k == CHOOSE x \in ks : \A y \in ks : x <= y
         IN  <<ToString(k), ToString(keys[k])>> \o json_dump_pairs(keys, ks \ {k})

json_dump(keys) == <<"{">> \o json_dump_pairs(keys, DOMAIN keys) \o <<"}">>

\* json.load of a file: None when the text is no complete document.
json_load(doc) ==
    LET n == (Len(doc) - 2) \div 2
        key_at(i) == CHOOSE k \in Keys : ToString(k) = doc[2 * i]
        value_at(i) == CHOOSE v \in Values : ToString(v) = doc[2 * i + 1]
        complete ==
            /\ Len(doc) >= 2
            /\ Len(doc) % 2 = 0
            /\ doc[1] = "{"
            /\ doc[Len(doc)] = "}"
            /\ \A i \in 1 .. n :
                   /\ \E k \in Keys : ToString(k) = doc[2 * i]
                   /\ \E v \in Values : ToString(v) = doc[2 * i + 1]
    IN  IF ~complete THEN None
        ELSE Some([k \in {key_at(i) : i \in 1 .. n} |->
                      value_at(CHOOSE i \in 1 .. n : key_at(i) = k)])

\* The two files of create_snapshot.
SnapFiles == [dump |-> dump_file, tmp |-> tmp_file]

InstallFiles(F) ==
    /\ dump_file' = F.dump
    /\ tmp_file' = F.tmp

\* open that truncates dump.json itself.
open_in_place(F) == [dump |-> Some(<<>>), tmp |-> Some(<<>>)]

\* open(snapshot_temp_path, "w"): the tmp file exists and is empty.
open_tmp(F) == [F EXCEPT !.tmp = Some(<<>>)]

\* One write of json.dump reaches the tmp file.
write_tmp(F, cell) == [F EXCEPT !.tmp = Some(@[1] \o <<cell>>)]

\* snapshot_temp_path.replace(snapshot_path).
replace_tmp(F) == [dump |-> F.tmp, tmp |-> None]

\* The except branch: snapshot_temp_path.unlink(missing_ok=True).
unlink_tmp(F) == [F EXCEPT !.tmp = None]

\* load_snapshot: the keys of dump.json, none when the file is absent or
\* cannot be parsed.
load_snapshot(dump) ==
    IF dump = None \/ json_load(dump[1]) = None THEN EmptyDict
    ELSE json_load(dump[1])[1]

\* Step 1 of recover: every key of the snapshot is set.
RECURSIVE restore_snapshot(_, _, _, _)
restore_snapshot(S, keys, ks, t) ==
    IF ks = {} THEN S
    ELSE LET k == CHOOSE x \in ks : \A y \in ks : x <= y
         IN  restore_snapshot(RL_set(S, 0, k, keys[k], None, t), keys, ks \ {k}, t)

\* replay_aof from pos to the first record that cannot be read.
RECURSIVE replay_aof(_, _, _, _)
replay_aof(S, f, pos, t) ==
    LET r == replay_read(f, pos)
    IN  IF r.kind = "ok"
        THEN replay_aof(apply_aof_command(S, 0, r.cmd[1], t), f, r.pos, t)
        ELSE S

\* RecoveryManager.recover into an empty store.
recover(dump, aof, t) ==
    replay_aof(restore_snapshot(EmptyStore, load_snapshot(dump),
                                DOMAIN load_snapshot(dump), t),
               aof, 0, t)

\* The commands of this part carry no TTL.
SnapCommands == {c \in Commands : c.ttl = None}

InitSnap ==
    /\ WalStoreInit
    /\ \E policy \in {"always", "everysec", "no"} : WalInit(TRUE, policy)
    /\ ReplInit
    /\ PsyncInit
    /\ LockInit
    /\ KvInit
    /\ ExpInit
    /\ FlushInit
    /\ FullsyncInit
    /\ RespInit
    /\ ShutInit
    /\ IoInit
    /\ SnapInit
    /\ ModeInit

\* The caller of create_snapshot collects the keys of the store.
CaptureState ==
    /\ proc = "running"
    /\ snap_pc = "idle"
    /\ snap_state' = store_state(Store)
    /\ snap_prev' = dump_file
    /\ snap_pc' = "captured"
    /\ UNCHANGED <<dump_file, tmp_file>>
    /\ UNCHANGED <<storeVars, walVars, otherThanSnap>>

\* create_snapshot opens the tmp file.
OpenTmp ==
    /\ proc = "running"
    /\ snap_pc = "captured"
    /\ InstallFiles(open_tmp(SnapFiles))
    /\ snap_pc' = "writing"
    /\ UNCHANGED <<snap_state, snap_prev>>
    /\ UNCHANGED <<storeVars, walVars, otherThanSnap>>

\* json.dump writes the next part of the document.
WriteTmp ==
    /\ proc = "running"
    /\ snap_pc = "writing"
    /\ Len(tmp_file[1]) < Len(json_dump(snap_state))
    /\ InstallFiles(write_tmp(SnapFiles, json_dump(snap_state)[Len(tmp_file[1]) + 1]))
    /\ UNCHANGED <<snap_pc, snap_state, snap_prev>>
    /\ UNCHANGED <<storeVars, walVars, otherThanSnap>>

\* The document is written: the tmp file replaces dump.json.
RenameTmp ==
    /\ proc = "running"
    /\ snap_pc = "writing"
    /\ tmp_file[1] = json_dump(snap_state)
    /\ InstallFiles(replace_tmp(SnapFiles))
    /\ snap_pc' = "renamed"
    /\ UNCHANGED <<snap_state, snap_prev>>
    /\ UNCHANGED <<storeVars, walVars, otherThanSnap>>

\* open, json.dump or replace raises: the except branch removes the tmp
\* file and create_snapshot returns.
SnapshotFails ==
    /\ proc = "running"
    /\ snap_pc \in {"captured", "writing"}
    /\ InstallFiles(unlink_tmp(SnapFiles))
    /\ snap_pc' = "idle"
    /\ UNCHANGED <<snap_state, snap_prev>>
    /\ UNCHANGED <<storeVars, walVars, otherThanSnap>>

\* cleanup_old_aof after the snapshot: aof.wal is renamed to an archive
\* that recovery does not read.
Rotate ==
    /\ proc = "running"
    /\ snap_pc = "renamed"
    /\ aof_file' = <<>>
    /\ aof_synced' = 0
    /\ snap_pc' = "idle"
    /\ UNCHANGED <<dump_file, tmp_file, snap_state, snap_prev>>
    /\ UNCHANGED <<wal_wired, aof_fsync_policy, aof_buffer, aof_corruption_skipped,
                   proc, replay_pos, replay_done, applied, acked, written, damage,
                   stop_kind, restarts>>
    /\ UNCHANGED <<storeVars, otherThanSnap>>

\* The process is killed: the buffer is gone, the files stay as they are.
SnapCrash ==
    /\ proc = "running"
    /\ proc' = "down"
    /\ stop_kind' = "crash"
    /\ aof_buffer' = <<>>
    /\ snap_pc' = "idle"
    /\ UNCHANGED <<dump_file, tmp_file, snap_state, snap_prev>>
    /\ UNCHANGED <<wal_wired, aof_fsync_policy, aof_file, aof_synced,
                   aof_corruption_skipped, replay_pos, replay_done, applied,
                   acked, written, damage, restarts>>
    /\ UNCHANGED <<storeVars, otherThanSnap>>

\* The server starts again and recover fills the store.
Recover ==
    /\ proc = "down"
    /\ restarts < MaxRestarts
    /\ restarts' = restarts + 1
    /\ proc' = "running"
    /\ Install(recover(dump_file, aof_file, now))
    /\ UNCHANGED <<engine, memory_bytes, now, hist>>
    /\ UNCHANGED <<wal_wired, aof_fsync_policy, aof_buffer, aof_file, aof_synced,
                   aof_corruption_skipped, replay_pos, replay_done, applied,
                   acked, written, damage, stop_kind>>
    /\ UNCHANGED <<snapVars, otherThanSnap>>

NextSnap ==
    \/ \E cmd \in SnapCommands, due \in BOOLEAN : Write(cmd, due)
    \/ \E due \in BOOLEAN : DaemonFlush(due)
    \/ CaptureState
    \/ OpenTmp
    \/ WriteTmp
    \/ RenameTmp
    \/ SnapshotFails
    \/ Rotate
    \/ SnapCrash
    \/ Recover

SpecSnap == InitSnap /\ [][NextSnap]_vars

---------------------------------------------------------------------------
\* KEYS: the names of the keys, patterns, and the scan of either engine.

\* The name of a key, character by character.
KeyName(k) ==
    IF k = 1 THEN <<"a", "b">>
    ELSE IF k = 17 THEN <<"a", "c">>
    ELSE <<"z", ToString(k)>>

\* The tokens of a pattern.
Lit(c) == [t |-> "lit", cs |-> <<c>>]

Star == [t |-> "star", cs |-> <<>>]

AnyOne == [t |-> "any", cs |-> <<>>]

Class(cs) == [t |-> "class", cs |-> cs]

\* The patterns the clients of this part send: *, a*, a?, a[b], a[bc], ab, ?
Patterns ==
    {<<Star>>, <<Lit("a"), Star>>, <<Lit("a"), AnyOne>>,
     <<Lit("a"), Class(<<"b">>)>>, <<Lit("a"), Class(<<"b", "c">>)>>,
     <<Lit("a"), Lit("b")>>, <<AnyOne>>}

\* The text of a pattern as the client typed it.
RECURSIVE pattern_text(_)
pattern_text(pat) ==
    IF pat = <<>> THEN <<>>
    ELSE (IF Head(pat).t = "lit" THEN Head(pat).cs
          ELSE IF Head(pat).t = "star" THEN <<"*">>
          ELSE IF Head(pat).t = "any" THEN <<"?">>
          ELSE <<"[">> \o Head(pat).cs \o <<"]">>) \o pattern_text(Tail(pat))

\* fnmatch.fnmatch(name, pat).
RECURSIVE fnmatch(_, _)
fnmatch(name, pat) ==
    IF pat = <<>> THEN name = <<>>
    ELSE IF Head(pat).t = "star"
    THEN fnmatch(name, Tail(pat)) \/ (name # <<>> /\ fnmatch(Tail(name), pat))
    ELSE /\ name # <<>>
         /\ \/ Head(pat).t = "any"
            \/ \E i \in DOMAIN Head(pat).cs : Head(pat).cs[i] = Head(name)
         /\ fnmatch(Tail(name), Tail(pat))

\* The test of RedisLite.keys: pattern == "*" or key == pattern.
RL_keys_match(name, pat) == pattern_text(pat) = <<"*">> \/ name = pattern_text(pat)

\* The keys a scan does not skip as expired.
keys_scanned(S, t) ==
    {k \in Keys : /\ k \in DOMAIN S.data[get_shard(k)]
                  /\ ~(/\ k \in DOMAIN S.expiry[get_shard(k)]
                       /\ t >= S.expiry[get_shard(k)][k])}

HM_keys(S, pat, t) == {k \in keys_scanned(S, t) : fnmatch(KeyName(k), pat)}

RL_keys(S, pat, t) == {k \in keys_scanned(S, t) : RL_keys_match(KeyName(k), pat)}

\* The engine, and the store behind the RESP and HTTP servers.
do_keys(S, pat, t) == IF IsHM THEN HM_keys(S, pat, t) ELSE RL_keys(S, pat, t)

---------------------------------------------------------------------------
\* Shutdown: the SHUTDOWN command of a client, and the shutdown half of
\* lifespan line by line.  That half has no await, so no handler of the
\* event loop runs between its lines; the persistence thread does.

InitShut ==
    /\ WalStoreInit
    /\ \E policy \in {"always", "everysec", "no"} : WalInit(TRUE, policy)
    /\ ReplInit
    /\ PsyncInit
    /\ LockInit
    /\ KvInit
    /\ ExpInit
    /\ FlushInit
    /\ FullsyncInit
    /\ RespInit
    /\ IoInit
    /\ SnapInit
    /\ ShutInit
    /\ ModeInit

\* A mutating command of a client while the server serves.
ClientWrite(cmd, due) ==
    /\ sd_pc = "serving"
    /\ Write(cmd, due)

\* One wake-up of _persistence_loop while its thread runs.
BackgroundFlush(due) ==
    /\ "persistence" \in workers
    /\ DaemonFlush(due)

\* _cmd_shutdown: the reply +OK and nothing else.
CmdShutdown ==
    /\ proc = "running"
    /\ sd_pc = "serving"
    /\ shutdown_cmd' = TRUE
    /\ UNCHANGED <<accepting, workers, sd_pc>>
    /\ UNCHANGED <<storeVars, walVars, otherThanShut>>

\* The server is told to stop from outside: store.shutdown() stops the
\* threads of the store.
StoreShutdown ==
    /\ proc = "running"
    /\ sd_pc = "serving"
    /\ workers' = workers \ {"expiration"}
    /\ sd_pc' = "store_down"
    /\ UNCHANGED <<accepting, shutdown_cmd>>
    /\ UNCHANGED <<storeVars, walVars, otherThanShut>>

\* persistence_manager.flush_aof(); no snapshot is written after it.
FinalFlush(due) ==
    /\ sd_pc = "store_down"
    /\ InstallWal(flush_aof(Wal, due))
    /\ sd_pc' = "flushed"
    /\ UNCHANGED <<accepting, workers, shutdown_cmd>>
    /\ UNCHANGED storeVars
    /\ UNCHANGED <<wal_wired, aof_fsync_policy, aof_corruption_skipped, proc,
                   replay_pos, replay_done, applied, acked, damage, stop_kind,
                   restarts>>
    /\ UNCHANGED otherThanShut

\* persistence_manager.shutdown(): the flag, flush_aof, the join.
PersistenceShutdown(due) ==
    /\ sd_pc = "flushed"
    /\ InstallWal(flush_aof(Wal, due))
    /\ workers' = workers \ {"persistence"}
    /\ sd_pc' = "persist_down"
    /\ UNCHANGED <<accepting, shutdown_cmd>>
    /\ UNCHANGED storeVars
    /\ UNCHANGED <<wal_wired, aof_fsync_policy, aof_corruption_skipped, proc,
                   replay_pos, replay_done, applied, acked, damage, stop_kind,
                   restarts>>
    /\ UNCHANGED otherThanShut

\* tcp_server.stop() and tcp_task.cancel(): the listening socket closes and
\* the process ends.
TcpStop ==
    /\ sd_pc = "persist_down"
    /\ accepting' = FALSE
    /\ sd_pc' = "stopped"
    /\ proc' = "down"
    /\ stop_kind' = "clean"
    /\ UNCHANGED <<workers, shutdown_cmd>>
    /\ UNCHANGED storeVars
    /\ UNCHANGED <<wal_wired, aof_fsync_policy, aof_buffer, aof_file, aof_synced,
                   aof_corruption_skipped, replay_pos, replay_done, applied,
                   acked, written, damage, restarts>>
    /\ UNCHANGED otherThanShut

NextShut ==
    \/ \E cmd \in Commands, due \in BOOLEAN : ClientWrite(cmd, due)
    \/ \E due \in BOOLEAN : BackgroundFlush(due)
    \/ CmdShutdown
    \/ StoreShutdown
    \/ \E due \in BOOLEAN : FinalFlush(due)
    \/ \E due \in BOOLEAN : PersistenceShutdown(due)
    \/ TcpStop

SpecShut == InitShut /\ [][NextShut]_vars

---------------------------------------------------------------------------
\* The store with an expiration worker that is scheduled again and again:
\* the loop of the daemon thread sleeps and sweeps for as long as the store
\* runs.
SpecFairSweep == Init /\ [][Next]_vars /\ WF_vars(Sweep)

---------------------------------------------------------------------------
\* The WAL under policy everysec with a persistence thread that keeps
\* waking up: _persistence_loop runs for as long as the manager does, and
\* the fsync interval has passed at some of its wake-ups.

InitFairFlush ==
    /\ WalStoreInit
    /\ WalInit(TRUE, "everysec")
    /\ ReplInit
    /\ PsyncInit
    /\ LockInit
    /\ KvInit
    /\ ExpInit
    /\ FlushInit
    /\ FullsyncInit
    /\ RespInit
    /\ ShutInit
    /\ SnapInit
    /\ IoInit
    /\ ModeInit

NextFairFlush ==
    \/ \E cmd \in Commands, due \in BOOLEAN : Write(cmd, due)
    \/ \E due \in BOOLEAN : DaemonFlush(due)

SpecFairFlush ==
    /\ InitFairFlush
    /\ [][NextFairFlush]_vars
    /\ WF_vars(\E due \in BOOLEAN : DaemonFlush(due))
    /\ SF_vars(DaemonFlush(TRUE))

-----------------------------------------------------------------------------
\* The RESP connection loop of the TCP server.  The byte stream is cut
\* into cells, one per CRLF-terminated line: an array header ("*1", "*2"),
\* a bulk length line ("$"), a data line, or a line that is not RESP.
\* A TCP read delivers any number of cells, so a command can arrive in
\* pieces and several commands can arrive in one read.

MaxCommands == 3
MaxCells == 8

PingCommand == <<"*1", "$", "PING">>
EchoCommand == <<"*2", "$", "ECHO", "$", "hi">>
InlineGarbage == <<"QUIT">>
BadHeader == <<"*x">>

RespCommands == {PingCommand, EchoCommand}
RespItems == RespCommands \cup {InlineGarbage, BadHeader}

\* RedisProtocolHandler.handle_command for the two commands: its reply.
handle_command_reply(parts) ==
    IF parts[1] = "PING"
        THEN (IF Len(parts) > 1 THEN "$" \o parts[2] ELSE "+PONG")
    ELSE IF parts[1] = "ECHO"
        THEN (IF Len(parts) < 2 THEN "-ERR wrong number of arguments"
              ELSE "$" \o parts[2])
    ELSE "-ERR unknown command"

\* buffer.startswith(b"*")
StartsWithStar(b) == Len(b) > 0 /\ Head(b) \in {"*1", "*2", "*x"}

\* int(buffer[1:idx]): a sequence of length 0 when int() raises ValueError.
array_len(c) == IF c = "*1" THEN <<1>> ELSE IF c = "*2" THEN <<2>> ELSE <<>>

\* The for loop of parse: n elements still to read from position pos.
RECURSIVE parse_elements(_, _, _, _)
parse_elements(b, pos, n, parts) ==
    IF n = 0 THEN [parts |-> <<parts>>, buffer |-> SubSeq(b, pos, Len(b))]
    ELSE IF pos > Len(b) \/ b[pos] # "$" THEN [parts |-> <<>>, buffer |-> b]
    ELSE IF pos + 1 > Len(b) THEN [parts |-> <<>>, buffer |-> b]
    ELSE parse_elements(b, pos + 2, n - 1, Append(parts, b[pos + 1]))

\* RESPParser.parse(chunk): parts is the Optional result, buffer the
\* parser's buffer afterwards.  At most one command is taken per call.
parse(buffer, chunk) ==
    LET b == buffer \o chunk
    IN  IF ~StartsWithStar(b) THEN [parts |-> <<>>, buffer |-> b]
        ELSE IF array_len(Head(b)) = <<>> THEN [parts |-> <<>>, buffer |-> b]
        ELSE parse_elements(b, 2, array_len(Head(b))[1], <<>>)

\* The replies to the complete commands among the items sent so far.
RECURSIVE replies_due(_)
replies_due(items) ==
    IF items = <<>> THEN <<>>
    ELSE IF Head(items) \in RespCommands
        THEN <<handle_command_reply(Head(parse_elements(Head(items), 2,
                   array_len(Head(Head(items)))[1], <<>>).parts))>>
             \o replies_due(Tail(items))
    ELSE replies_due(Tail(items))

\* The client sends one more command, or something that is not RESP.
ClientSend(item) ==
    /\ Len(expected) + Len(replies_due(<<item>>)) <= MaxCommands
    /\ Len(parser_buffer) + Len(unread) + Len(item) <= MaxCells
    /\ unread' = unread \o item
    /\ expected' = expected \o replies_due(<<item>>)
    /\ UNCHANGED <<parser_buffer, replies>>
    /\ UNCHANGED otherThanResp

\* One turn of the loop of handle_client: read(4096) returns the next n
\* cells, parse is called once, and a non-empty result is answered.
HandleClientRead(n) ==
    /\ n \in 1..Len(unread)
    /\ LET r == parse(parser_buffer, SubSeq(unread, 1, n))
       IN  /\ parser_buffer' = r.buffer
           /\ replies' = IF r.parts # <<>> /\ r.parts[1] # <<>>
                             THEN Append(replies, handle_command_reply(r.parts[1]))
                             ELSE replies
    /\ unread' = SubSeq(unread, n + 1, Len(unread))
    /\ UNCHANGED expected
    /\ UNCHANGED otherThanResp

InitResp ==
    /\ WalInit(FALSE, "everysec")
    /\ WalStoreInit
    /\ ReplInit
    /\ PsyncInit
    /\ LockInit
    /\ KvInit
    /\ ExpInit
    /\ FlushInit
    /\ FullsyncInit
    /\ ModeInit
    /\ IoInit
    /\ SnapInit
    /\ ShutInit
    /\ RespInit

NextResp ==
    \/ \E item \in RespItems : ClientSend(item)
    \/ \E n \in 1..MaxCells : HandleClientRead(n)

SpecResp == InitResp /\ [][NextResp]_vars

-----------------------------------------------------------------------------
\* flush_aof when IOError is raised after part of the batch has reached
\* the file: a write that fails after n records, or (n = the whole batch)
\* an fsync that fails after every write.  The except branch logs the
\* error; aof_buffer.clear() is not reached.
flush_aof_fails_after(W, n) ==
    [W EXCEPT !.file = @ \o wal_bytes(SubSeq(W.buffer, 1, n)),
              !.written = @ \o SubSeq(W.buffer, 1, n)]

\* One wake-up of _persistence_loop whose flush fails part-way.
FlushAofFailsPartWay(n) ==
    /\ proc = "running"
    /\ n \in 1..Len(aof_buffer)
    /\ Len(written) + n <= MaxLog + 1
    /\ InstallWal(flush_aof_fails_after(Wal, n))
    /\ UNCHANGED storeVars
    /\ UNCHANGED <<wal_wired, aof_fsync_policy, aof_corruption_skipped, proc,
                   replay_pos, replay_done, applied, acked, damage, stop_kind,
                   restarts>>
    /\ UNCHANGED ioVars
    /\ UNCHANGED otherThanIo

NextRetry ==
    \/ \E cmd \in Commands, due \in BOOLEAN, ok \in BOOLEAN : LogCommand(cmd, due, ok)
    \/ \E due \in BOOLEAN, ok \in BOOLEAN : FlushAof(due, ok)
    \/ \E n \in 1..(AofBufferLimit + 1) : FlushAofFailsPartWay(n)

SpecRetry == InitIO /\ [][NextRetry]_vars

-----------------------------------------------------------------------------
\* _handle_fullsync step by step.  The coroutine gives up the event loop at
\* each `await writer.drain()`; record_command takes no lock, so a client
\* write can run at either await.

\* Up to the first await: the header is written with the offset now.
FullsyncSendHeader ==
    /\ fs_pc \in {"idle", "done"}
    /\ fs_header_offset' = psync_replication_offset
    /\ fs_pc' = "header_sent"
    /\ UNCHANGED fs_snapshot_offset
    /\ UNCHANGED psyncVars
    /\ UNCHANGED otherThanFullsync

\* From the first await to the second: snapshot_callback() is called and
\* the snapshot is written.  The snapshot holds the effect of every record
\* so far, the records below the offset now.
FullsyncSendSnapshot ==
    /\ fs_pc = "header_sent"
    /\ fs_snapshot_offset' = psync_replication_offset
    /\ stream' = <<[cmd |-> "SNAPSHOT", key |-> 0, offset |-> fs_header_offset,
                    len |-> 0]>>
    /\ fs_pc' = "snapshot_sent"
    /\ UNCHANGED fs_header_offset
    /\ UNCHANGED <<psync_replication_id, psync_replication_offset, command_backlog,
                   backlog_size_bytes, replica_offsets, replica_replication_id,
                   last_offset, link_up, psync_applied, psync_history, last_sync,
                   replica_data>>
    /\ UNCHANGED otherThanFullsync

\* After the second await: the replica is tracked at the offset now.
FullsyncTrackReplica ==
    /\ fs_pc = "snapshot_sent"
    /\ replica_offsets' = Some(psync_replication_offset)
    /\ fs_pc' = "done"
    /\ UNCHANGED <<fs_header_offset, fs_snapshot_offset>>
    /\ UNCHANGED <<psync_replication_id, psync_replication_offset, command_backlog,
                   backlog_size_bytes, replica_replication_id, last_offset, link_up,
                   stream, psync_applied, psync_history, last_sync, replica_data>>
    /\ UNCHANGED otherThanFullsync

NextFullsync ==
    \/ \E c \in {"SET", "DEL", "SET_LARGE"}, k \in Keys : RecordCommand(c, k)
    \/ FullsyncSendHeader
    \/ FullsyncSendSnapshot
    \/ FullsyncTrackReplica

SpecFullsync == InitPsync /\ [][NextFullsync]_vars

---------------------------------------------------------------------------
\* Properties of replication roles.

\* C21: on a replica every step that answers a client's mutating command
\* answers with an error and leaves the store as it was.
C21_ReplicaRejectsClientWrites ==
    [][replica_mode = "replica" /\ last_reply'.origin = "client"
          => /\ last_reply'.reply = "error"
             /\ UNCHANGED <<data, expiry, access_times, expiry_heap>>]_vars

\* On a master the commands of clients are answered without an error.
MasterAcceptsClientWrites ==
    [][replica_mode = "master" /\ last_reply'.origin = "client"
          => last_reply'.reply = "ok"]_vars

\* The coroutine of replica r has a command of the queue to write and drain.
AwaitingSend(r) == handler[r].state = "sending" /\ handler[r].it < Len(command_queue)

\* C22: while the master is sending to a replica, the lock that
\* queue_command needs is free, so that a client's write can enqueue.
C22_WritePathFreeWhileSending ==
    \A r \in Replicas : AwaitingSend(r) => ~queue_lock_held

\* The lock of the queue is held only by a coroutine inside its with block.
QueueLockHeldOnlyBySender ==
    queue_lock_held => \E r \in Replicas : handler[r].state = "sending"

\* C23: once the replica has processed a FULLSYNC, its keys and values are
\* those of the snapshot it received; what it held besides is gone.
C23_FullsyncReplacesReplicaData ==
    [][link_up /\ link_up' /\ stream # <<>> /\ stream' = Tail(stream)
          /\ Head(stream).cmd = "SNAPSHOT"
          => replica_data' = snapshot(psync_history, Head(stream).offset)]_vars

\* Every key of the snapshot is at the replica with the snapshot's value.
FullsyncInstallsSnapshot ==
    [][link_up /\ link_up' /\ stream # <<>> /\ stream' = Tail(stream)
          /\ Head(stream).cmd = "SNAPSHOT"
          => \A k \in DOMAIN snapshot(psync_history, Head(stream).offset) :
                 /\ k \in DOMAIN replica_data'
                 /\ replica_data'[k] = snapshot(psync_history, Head(stream).offset)[k]]_vars

\* C24: the first request of a replica carries the id "?" and the offset
\* -1, and the master answers it with FULLSYNC.
C24_FreshReplicaGetsFullsync ==
    last_sync.connections = 1 =>
        /\ last_sync.known_repl_id = "?"
        /\ last_sync.known_offset = 0 - 1
        /\ last_sync.kind = "FULLSYNC"

\* The first request of a replica carries the id "?" and the offset 0, and
\* it is answered with FULLSYNC exactly when the backlog no longer starts
\* at offset 0.
FreshReplicaAsksFromZero ==
    last_sync.connections = 1 =>
        /\ last_sync.known_repl_id = "?"
        /\ last_sync.known_offset = 0
        /\ (last_sync.kind = "FULLSYNC") = (last_sync.backlog_start > 0)

\* C25: whenever log_command has returned, the buffer holds at most the
\* threshold of records.
C25_BufferAtMostThreshold ==
    Len(aof_buffer) <= AofBufferLimit

\* The buffer is within the threshold after every log_command whose write
\* of the file did not fail.
BufferAtMostThresholdAfterGoodWrite ==
    [][Len(acked') > Len(acked) /\ ~io_failed'
          => Len(aof_buffer') <= AofBufferLimit]_vars

\* C26: a log_command whose flush failed raises to its caller, an error
\* counter goes up by one, and the command is not acknowledged.
C26_FailedFlushIsReported ==
    [][io_failed' /\ Len(aof_buffer') > Len(aof_buffer)
          => /\ log_raised'
             /\ error_count' = error_count + 1
             /\ acked' = acked]_vars

\* A log_command whose flush failed returns as one that did not flush: no
\* counter moves, and the command is acknowledged and stays in the buffer.
FailedFlushIsSwallowed ==
    [][io_failed' /\ Len(aof_buffer') > Len(aof_buffer)
          => /\ ~log_raised'
             /\ error_count' = error_count
             /\ Len(acked') = Len(acked) + 1
             /\ aof_file' = aof_file]_vars

\* dump.json is absent, the snapshot that was there when create_snapshot
\* began, or the new snapshot, and always a complete document; while the
\* tmp file is being written it is still the one that was there.
DumpIsWhole ==
    /\ dump_file \in {None, snap_prev, Some(json_dump(snap_state))}
    /\ dump_file # None => json_load(dump_file[1]) # None
    /\ snap_pc \in {"captured", "writing"} => dump_file = snap_prev

\* A step in which create_snapshot fails leaves dump.json as it was and no
\* tmp file.
FailureCleansUp ==
    (snap_pc \in {"captured", "writing"} /\ snap_pc' = "idle" /\ proc' = "running")
        => (dump_file' = dump_file /\ tmp_file' = None)

\* C27: dump.json is at every moment absent, the previous complete
\* snapshot or the new complete snapshot, also when the process is killed
\* part-way; a create_snapshot that fails leaves the previous dump.json
\* in place and removes the tmp file.
C27_DumpIsWholeOrAbsent == []DumpIsWhole /\ [][FailureCleansUp]_vars

\* The process was killed while a second snapshot was half written.
C27_Witness ==
    /\ proc = "down"
    /\ dump_file # None
    /\ tmp_file # None
    /\ tmp_file[1] # <<>>
    /\ json_load(tmp_file[1]) = None
    /\ load_snapshot(dump_file) # EmptyDict

\* C28: whenever every acknowledged write has left the buffer for the WAL
\* file, dump.json and the active WAL recover the store as the
\* acknowledged writes left it.
C28_FlushedWritesAreRecovered ==
    proc = "running" /\ aof_buffer = <<>>
        => store_state(recover(dump_file, aof_file, now)) = store_state(Store)

\* The same while the active WAL still holds every record ever written,
\* that is until the first write is followed by a rotation.
UnrotatedLogRecoversFlushedWrites ==
    proc = "running" /\ aof_buffer = <<>> /\ aof_file = wal_bytes(written)
        => store_state(recover(dump_file, aof_file, now)) = store_state(Store)

\* The structures of every shard but that of key k are the same in S1 as
\* in S0.
OtherShardsUntouched(S0, S1, k) ==
    \A s \in Shards \ {get_shard(k)} :
        /\ S1.data[s] = S0.data[s]
        /\ S1.expiry[s] = S0.expiry[s]
        /\ S1.access[s] = S0.access[s]

\* C29: a SET, which holds the lock of its key's shard and no other shard
\* lock, eviction included, changes the map, the expiry map and the recency
\* order of that shard only.
C29_SetMutatesUnderItsShardLock ==
    \A k \in EvictKeys, v \in Values :
        OtherShardsUntouched(Store, do_set(Store, memory_bytes, k, v, None, now), k)

\* The SET of RedisLite, whose _evict_lru_key takes the lock of the shard it
\* evicts from, changes the shard of its key only.
RedisLiteSetMutatesItsShard ==
    ~IsHM => \A k \in EvictKeys, v \in Values :
                 OtherShardsUntouched(Store, RL_set(Store, memory_bytes, k, v, None, now), k)

\* The three structures of shard s of S agree.
ShardAgrees(S, s) ==
    /\ SeqKeys(S.access[s]) = DOMAIN S.data[s]
    /\ DOMAIN S.expiry[s] \subseteq DOMAIN S.data[s]

\* C30: between the operations, when no shard lock is held, the keys of
\* every shard's recency order are the keys of its map and the keys of its
\* expiry map are among them.
C30_ShardStructuresAgree ==
    \A s \in Shards : ShardAgrees(Store, s)

\* The shards of RedisLite agree, and in both engines a shard's expiry map
\* holds keys of its map only.
RedisLiteShardsAgree ==
    /\ ~IsHM => \A s \in Shards : ShardAgrees(Store, s)
    /\ \A s \in Shards : DOMAIN expiry[s] \subseteq DOMAIN data[s]

\* The live keys of the store whose names match the pattern as a glob.
GlobLiveKeys(S, pat, t) ==
    {k \in Keys : get_result(S, k, t) # None /\ fnmatch(KeyName(k), pat)}

\* C31: KEYS(pattern) returns exactly the live keys that match the pattern
\* as a glob, in the engine and in the store behind the servers.
C31_KeysReturnsGlobMatches ==
    \A pat \in Patterns : do_keys(Store, pat, now) = GlobLiveKeys(Store, pat, now)

\* The keys of HashMapEngine are the glob matches among the live keys; the
\* keys of RedisLite are all live keys for "*" and otherwise the live key
\* spelled as the pattern.
KeysOfEachEngine ==
    \A pat \in Patterns :
        /\ HM_keys(Store, pat, now) = GlobLiveKeys(Store, pat, now)
        /\ RL_keys(Store, pat, now) =
               {k \in Keys : /\ get_result(Store, k, now) # None
                             /\ (pat = <<Star>> \/ KeyName(k) = pattern_text(pat))}


\* C32: once SHUTDOWN is answered the server takes no new clients; the WAL
\* is drained only after it stopped taking clients; and when the process
\* has exited the buffer is empty, a final snapshot of the store is on
\* disk and no worker runs.
C32_ShutdownStopsDrainsSnapshots ==
    /\ shutdown_cmd => ~accepting
    /\ sd_pc \in {"flushed", "persist_down", "stopped"} => ~accepting
    /\ sd_pc = "stopped" =>
           /\ aof_buffer = <<>>
           /\ load_snapshot(dump_file) = store_state(Store)
           /\ dump_file # None
           /\ workers = {}

\* What the shutdown half of lifespan does: the server takes clients until
\* its last line, and at the exit the buffer is empty, the workers are
\* stopped and no snapshot was written; a SHUTDOWN command changes nothing.
LifespanShutdownAsCoded ==
    /\ accepting = (sd_pc # "stopped")
    /\ sd_pc = "stopped" => aof_buffer = <<>> /\ workers = {} /\ dump_file = None
    /\ shutdown_cmd /\ sd_pc = "serving" => proc = "running" /\ "persistence" \in workers


\* The deadline of key k has passed.
DeadlinePassed(k) ==
    /\ k \in DOMAIN expiry[get_shard(k)]
    /\ expiry[get_shard(k)][k] <= now

\* Key k is in none of the three structures of its shard.
Gone(k) ==
    /\ k \notin DOMAIN data[get_shard(k)]
    /\ k \notin DOMAIN expiry[get_shard(k)]
    /\ k \notin SeqKeys(access_times[get_shard(k)])

\* Key k was written again: it is in the map with no passed deadline.
Rewritten(k) == k \in DOMAIN data[get_shard(k)] /\ ~DeadlinePassed(k)

\* C33: with a fair expiration worker, a key whose deadline has passed is
\* eventually gone from the map, the expiry map and the recency order of
\* its shard, unless it is written again.
C33_ExpiredKeysAreEventuallyRemoved ==
    \A k \in Keys : DeadlinePassed(k) ~> (Gone(k) \/ Rewritten(k))

\* With a fair expiration worker a passed deadline does not stay in the
\* expiry map for ever.
PassedDeadlineIsEventuallyDropped ==
    \A k \in Keys : DeadlinePassed(k) ~> ~DeadlinePassed(k)


\* With a fair expiration worker RedisLite removes a key whose deadline has
\* passed from all three structures, unless it is written again.
RedisLiteExpiredKeysAreEventuallyRemoved ==
    \A k \in Keys : (~IsHM /\ DeadlinePassed(k)) ~> (Gone(k) \/ Rewritten(k))


\* Thread t waits for a lock that thread u holds.
WaitsFor(t, u) ==
    /\ t # u
    /\ thread_want[t] # None
    /\ lock_owner[thread_want[t][1]] = u

\* C34: every command and every sweep that has started can run to its
\* end: no threads wait for each other's locks in a circle, of two or of
\* all three.
C34_StartedCommandsCanFinish ==
    \A t, u \in Threads :
        WaitsFor(t, u) =>
            /\ ~WaitsFor(u, t)
            /\ \A w \in Threads : ~(WaitsFor(u, w) /\ WaitsFor(w, t))

\* Client commands alone never wait for each other in a circle.
ClientsAloneNeverDeadlock ==
    \A t, u \in Clients : ~(WaitsFor(t, u) /\ WaitsFor(u, t))

\* Key k is at the most-recent end of the recency order of its shard: the
\* last entry of HashMapEngine's OrderedDict, the latest access time of
\* RedisLite's dict.
MostRecent(S, k) ==
    LET a == S.access[get_shard(k)]
    IN  /\ k \in SeqKeys(a)
        /\ IF IsHM THEN a[Len(a)][1] = k
           ELSE \A i \in DOMAIN a : \A j \in DOMAIN a : a[i][1] = k => a[j][2] <= a[i][2]

\* C35: a SET, a GET or an EXISTS that finds the key live leaves it at the
\* most-recent end of its shard's recency order.
C35_HitsMoveKeyToRecentEnd ==
    \A k \in Keys :
        get_result(Store, k, now) # None =>
            /\ \A v \in Values :
                   k \in KeysOf(do_set(Store, memory_bytes, k, v, None, now))
                       => MostRecent(do_set(Store, memory_bytes, k, v, None, now), k)
            /\ MostRecent(do_get(Store, k, now), k)
            /\ MostRecent(do_exists(Store, k, now), k)

\* SET and GET of a live key leave it at the most-recent end; EXISTS of a
\* live key leaves the recency order as it was.
ExistsLeavesRecencyOrder ==
    \A k \in Keys :
        get_result(Store, k, now) # None =>
            /\ \A v \in Values :
                   k \in KeysOf(do_set(Store, memory_bytes, k, v, None, now))
                       => MostRecent(do_set(Store, memory_bytes, k, v, None, now), k)
            /\ MostRecent(do_get(Store, k, now), k)
            /\ do_exists(Store, k, now).access = Store.access


\* C36: under everysec every record written to the WAL file is eventually
\* fsynced by the background task.
C36_WrittenRecordsGetFsynced ==
    (aof_synced < Len(aof_file)) ~> (aof_synced = Len(aof_file))

\* The background task does empty the buffer into the file.
BufferedRecordsGetWritten ==
    (aof_buffer # <<>>) ~> (aof_buffer = <<>>)

\* Records written and not fsynced with an empty buffer: no wake-up of the
\* background task gets past the first test of flush_aof.
UnsyncedTailWaitsForAWrite ==
    [][aof_synced < Len(aof_file) /\ aof_buffer = <<>> => aof_synced' = aof_synced]_vars


-----------------------------------------------------------------------------
\* C37: once the server has read everything the client sent, it has written
\* exactly one reply for every complete RESP command, in the order of the
\* commands, however the cells were split or merged across reads and also
\* after an earlier malformed input.
C37_EveryCommandIsAnsweredInOrder ==
    unread = <<>> => replies = expected

\* Two commands that arrived in one read: the bytes are all read.
C37_SeveralCommandsInOneRead ==
    /\ unread = <<>>
    /\ Len(expected) >= 2
    /\ Len(replies) < Len(expected)

\* What the loop does give: the replies written are the replies to the
\* first commands sent, in order, and none is written twice.
RepliesAreAPrefixOfThoseDue ==
    /\ Len(replies) <= Len(expected)
    /\ replies = SubSeq(expected, 1, Len(replies))

\* With one command per read and nothing malformed before it, a command
\* is answered by the read that completes it.
LoneCommandIsAnswered ==
    [][(/\ parser_buffer = <<>>
        /\ unread \in RespCommands
        /\ unread' = <<>>
        /\ parser_buffer' = <<>>)
       => replies' = Append(replies, replies_due(<<unread>>)[1])]_vars

-----------------------------------------------------------------------------
\* C38: the eviction a SET(k, v) starts never removes k itself: a GET(k)
\* that follows the SET at once returns v, also over the memory limit.
C38_SetKeepsItsOwnKey ==
    \A k \in EvictKeys, v \in Values :
        get_result(do_set(Store, memory_bytes, k, v, None, now), k, now) = Some(v)

\* RedisLite evicts before it stores: the key of the SET is always kept.
RedisLiteSetKeepsItsOwnKey ==
    ~IsHM => C38_SetKeepsItsOwnKey

\* HashMapEngine evicts after it stores: the key of the SET is lost
\* exactly when the SET evicts and the key is the only recency entry of
\* the first shard that has any.
HashMapSetLosesOnlyALoneKey ==
    IsHM =>
        \A k \in EvictKeys, v \in Values :
            LET S1 == HM_insert(Store, k, v, None, now)
                lost == get_result(do_set(Store, memory_bytes, k, v, None, now),
                                   k, now) # Some(v)
            IN  lost <=> /\ HM_set_evicts(memory_bytes)
                         /\ S1.access[EvictionShard(S1, k)] = <<<<k, 0>>>>

-----------------------------------------------------------------------------
\* C39: the WAL file holds the records log_command enqueued, each once
\* and in enqueue order (it is a prefix of what was enqueued, and all of it
\* once the buffer is flushed), also after a flush that failed part-way
\* and was retried.
C39_WalHoldsEachRecordOnce ==
    /\ Len(aof_file) <= Len(wal_bytes(acked))
    /\ aof_file = SubSeq(wal_bytes(acked), 1, Len(aof_file))
    /\ aof_buffer = <<>> => aof_file = wal_bytes(acked)

\* Without a failure that leaves records in the file (SpecIO: a flush
\* succeeds, or fails before anything is written) nothing is lost,
\* duplicated or reordered, for any interleaving of log_command and the
\* background flush.
WalHoldsEachRecordOnceWithoutPartialWrite ==
    /\ aof_file \o wal_bytes(aof_buffer) = wal_bytes(acked)
    /\ written \o aof_buffer = acked

\* A failed flush loses nothing: every enqueued record is in the file or
\* in the buffer, and the file never runs ahead of what was enqueued
\* except by repeating records of the batch that failed.
FailedFlushLosesNoRecord ==
    /\ \A i \in 1..Len(acked) :
           \/ \E j \in 1..Len(written) : written[j] = acked[i]
           \/ \E j \in 1..Len(aof_buffer) : aof_buffer[j] = acked[i]
    /\ aof_file = wal_bytes(written)

-----------------------------------------------------------------------------
\* C40: in a FULLSYNC the offset of the +FULLSYNC header and the offset
\* recorded for the replica both equal the master's offset when the
\* snapshot was taken, for any interleaving with client writes.
C40_FullsyncOffsetsAreTheSnapshotOffset ==
    /\ fs_pc \in {"snapshot_sent", "done"} => fs_header_offset = fs_snapshot_offset
    /\ fs_pc = "done" => replica_offsets = Some(fs_snapshot_offset)

\* What the coroutine gives: the three offsets are read in this order, so
\* the header's is at most the snapshot's, which is at most the recorded.
FullsyncOffsetsAscend ==
    /\ fs_pc \in {"snapshot_sent", "done"} => fs_header_offset <= fs_snapshot_offset
    /\ fs_pc = "done" => /\ replica_offsets # None
                         /\ fs_snapshot_offset <= replica_offsets[1]
                         /\ replica_offsets[1] <= psync_replication_offset

\* With no client write at either await the three offsets are equal.
FullsyncOffsetsAgreeWithoutWrites ==
    (fs_pc = "done" /\ psync_replication_offset = fs_header_offset) =>
        /\ fs_snapshot_offset = fs_header_offset
        /\ replica_offsets = Some(fs_header_offset)

====
